---- MODULE Spec2Model ----
(***************************************************************************)
(* Path Store, Progress Tracker and Achievement Evaluator of attentio:     *)
(* the Supabase-backed routes of server/routes/paths.js and the helpers of *)
(* server/routes/achievements.js, over the tables of the schema            *)
(* (user_paths, path_progress, achievements); the Path Generator of        *)
(* server/routes/ai.js; and the App with its progress view.                *)
(*                                                                         *)
(* A handler runs one await at a time: a step of the model is the database *)
(* call a request awaits together with the code that runs up to its next   *)
(* await, and the steps of requests in flight interleave.                  *)
(***************************************************************************)
EXTENDS Integers, Sequences, FiniteSets, Bags, TLC

(***************************************************************************)
(* Bounds of the model.                                                    *)
(***************************************************************************)
\* paths a run of Spec, SpecRead or SpecItems saves
MaxPaths == 1
\* paths a run of SpecStore or SpecSave saves
MaxStorePaths == 2
\* requests in flight at once in SpecConc and SpecSave
MaxReqs == 2
\* rows the achievements table holds before inserts stop
MaxAchievements == 4
\* handlers of the progress view of SpecClient that wait for their response
\* together
MaxCalls == 2
\* runs of handleContinuePath of SpecReopen that wait for their response
\* together
MaxFetches == 1
\* the latest time the clock of SpecClock shows
MaxNow == 3
\* rows the achievements table holds before inserts stop in SpecMilestone
MaxMilestoneAchievements == 8

(***************************************************************************)
(* Program constants.                                                      *)
(***************************************************************************)
\* sanitizeString: .substring(0, 1000)
MaxStringLen == 1000
\* isValidTopic: trimmed length between 2 and 200
MinTopicLen == 2
MaxTopicLen == 200

\* SQL NULL of an integer / timestamp column; JS null of a string
NullId == 0
NullTime == 0
NoNotes == ""

VARIABLES
    paths,          \* table user_paths: row i has id i (AUTOINCREMENT)
    progress,       \* table path_progress: a set of rows, unique per key
    achievements,   \* table achievements: the bag of its rows (ids left out)
    now,            \* the clock new Date() / CURRENT_TIMESTAMP reads
    last,           \* the last response sent, with its request
    reqs,           \* the requests in flight, and the ones answered last
    gen,            \* the path generation in flight (SpecGen)
    view            \* the App: its progress view, toggle handlers and fetches

vars == <<paths, progress, achievements, now, last, reqs, gen, view>>

(***************************************************************************)
(* supabase-js .single(): data is the row when the query matches exactly   *)
(* one row, and null (with an error) when it matches none or several.      *)
(* A result is modelled as a set of rows; {} is null.                      *)
(***************************************************************************)
Single(rows) == IF Cardinality(rows) = 1 THEN rows ELSE {}

TheRow(rows) == CHOOSE r \in rows : TRUE

(***************************************************************************)
(* validation.js: a string is the sequence of its UTF-16 code units, as    *)
(* String.prototype.length and substring count them: "ab" is <<97, 98>>.   *)
(***************************************************************************)
\* the code units String.prototype.trim() strips, the WhiteSpace and
\* LineTerminator code points: TAB, LF, VT, FF, CR, SP, NBSP, U+1680,
\* U+2000 to U+200A, U+2028, U+2029, U+202F, U+205F, U+3000 and U+FEFF
WhiteSpace ==
    {9, 10, 11, 12, 13, 32, 160, 5760} \cup (8192 .. 8202)
        \cup {8232, 8233, 8239, 8287, 12288, 65279}

RECURSIVE TrimStart(_)
TrimStart(s) == IF s # <<>> /\ Head(s) \in WhiteSpace THEN TrimStart(Tail(s)) ELSE s

RECURSIVE TrimEnd(_)
TrimEnd(s) == IF s # <<>> /\ s[Len(s)] \in WhiteSpace THEN TrimEnd(SubSeq(s, 1, Len(s) - 1)) ELSE s

Trim(s) == TrimEnd(TrimStart(s))

\* /[<>]/: U+003C and U+003E
IsAngle(c) == c \in {60, 62}

\* str.trim().replace(/[<>]/g, '').substring(0, 1000)
sanitizeString(str) ==
    LET t == SelectSeq(Trim(str), LAMBDA c : ~IsAngle(c))
    IN  SubSeq(t, 1, IF Len(t) < MaxStringLen THEN Len(t) ELSE MaxStringLen)

isValidTopic(topic) ==
    Len(Trim(topic)) >= MinTopicLen /\ Len(Trim(topic)) <= MaxTopicLen

(***************************************************************************)
(* A path payload.  Legacy: isNew = FALSE and stages is the array of       *)
(* stages, each [stageName |-> present?, keyTopics |-> its length, or -1   *)
(* when keyTopics is missing or no array].  New format: isNew = TRUE and   *)
(* units is the array of units, each the array of its levels, each the     *)
(* number of its lessons (titles present).                                 *)
(***************************************************************************)
isNewPathFormat(pathData) == pathData.isNew

validatePathData(topic, pathData) ==
    IF ~isValidTopic(topic) THEN "invalid"
    ELSE IF isNewPathFormat(pathData)
    THEN IF Len(pathData.units) = 0 THEN "invalid"
         ELSE IF \E i \in 1..Len(pathData.units) : Len(pathData.units[i]) = 0
              THEN "invalid"
         ELSE IF \E i \in 1..Len(pathData.units) :
                    \E j \in 1..Len(pathData.units[i]) : pathData.units[i][j] = 0
              THEN "invalid"
         ELSE "new"
    ELSE IF Len(pathData.stages) = 0 THEN "invalid"
    ELSE IF \E i \in 1..Len(pathData.stages) :
               ~pathData.stages[i].stageName \/ pathData.stages[i].keyTopics < 0
         THEN "invalid"
    ELSE "legacy"

validateProgressUpdate(stageIndex, itemType, itemIndex) ==
    /\ stageIndex >= 0
    /\ itemType \in {"topic", "project", "resource", "stage"}
    /\ itemIndex >= 0

(***************************************************************************)
(* paths.js helpers.                                                       *)
(***************************************************************************)
RECURSIVE SumKeyTopics(_)
SumKeyTopics(stages) ==
    IF stages = <<>> THEN 0
    ELSE (IF Head(stages).keyTopics > 0 THEN Head(stages).keyTopics ELSE 0)
         + SumKeyTopics(Tail(stages))

\* pathData.forEach(...) is called on the payload itself: a new-format
\* payload is an object without forEach, and the call throws.
calculatePathTotals(pathData) ==
    IF isNewPathFormat(pathData)
    THEN [throws |-> TRUE, totalStages |-> 0, totalTopics |-> 0]
    ELSE [throws |-> FALSE,
          totalStages |-> Len(pathData.stages),
          totalTopics |-> SumKeyTopics(pathData.stages)]

PathIds == 1..Len(paths)

\* mutant: the path is looked up by its id alone
SelectPathById(ps, id, user) ==
    Single({i \in 1..Len(ps) : i = id})

\* .from('user_paths').eq('id', id).eq('user_id', user).single()
SelectOwnedPath(ps, id, user) ==
    Single({i \in 1..Len(ps) : i = id /\ ps[i].user_id = user})

\* .eq('user_id', user).eq('topic', topic).eq('status', 'active').single()
SelectActiveByTopic(ps, user, topic) ==
    Single({i \in 1..Len(ps) :
              ps[i].user_id = user /\ ps[i].topic = topic /\ ps[i].status = "active"})

\* .eq('user_id', user).eq('status', 'completed')
SelectCompleted(ps, user) ==
    {i \in 1..Len(ps) : ps[i].user_id = user /\ ps[i].status = "completed"}

\* the row the insert of POST /api/paths stores at time at: the columns it
\* does not name take the defaults of the schema
NewPathRow(user, topic, pathData, totals, at) ==
    [user_id |-> user, topic |-> topic, path_data |-> pathData,
     total_stages |-> totals.totalStages, total_topics |-> totals.totalTopics,
     completed_stages |-> 0, completed_topics |-> 0, status |-> "active",
     started_at |-> at, last_accessed_at |-> at, completed_at |-> NullTime]

SameKey(r, q) ==
    /\ r.path_id = q.path_id
    /\ r.stage_index = q.stage_index
    /\ r.item_type = q.item_type
    /\ r.item_index = q.item_index

\* the row a toggle request upserts; at is what new Date() returned when the
\* row was built
ProgressRow(pid, user, stageIndex, itemType, itemIndex, isCompleted, notes, at) ==
    [path_id |-> pid, user_id |-> user, stage_index |-> stageIndex,
     item_type |-> itemType, item_index |-> itemIndex,
     is_completed |-> IF isCompleted THEN 1 ELSE 0,
     completed_at |-> IF isCompleted THEN at ELSE NullTime,
     notes |-> notes]

\* .upsert(row, { onConflict: 'path_id,stage_index,item_type,item_index' })
UpsertProgress(prog, row) == {r \in prog : ~SameKey(r, row)} \cup {row}

\* mutant: the recount counts completed records of every item type as topics
RecountAnyType(prog, pid) ==
    [completed_topics |->
        Cardinality({r \in prog : r.path_id = pid /\ r.is_completed = 1}),
     completed_stages |->
        Cardinality({r \in prog : r.path_id = pid /\ r.is_completed = 1
                                    /\ r.item_type = "stage"})]

\* the recount over .from('path_progress').eq('path_id', pid)
Recount(prog, pid) ==
    [completed_topics |->
        Cardinality({r \in prog : r.path_id = pid /\ r.is_completed = 1
                                    /\ r.item_type = "topic"}),
     completed_stages |->
        Cardinality({r \in prog : r.path_id = pid /\ r.is_completed = 1
                                    /\ r.item_type = "stage"})]

\* mutant: a path is complete only beyond total_topics
IsFullyCompletedStrict(stats, path) == stats.completed_topics > path.total_topics

IsFullyCompleted(stats, path) == stats.completed_topics >= path.total_topics

\* mutant: every toggle that finds the path complete is a completion transition
IsNewCompletionAlways(isFullyCompleted, path) == isFullyCompleted

IsNewCompletion(isFullyCompleted, path) ==
    isFullyCompleted /\ path.status # "completed"

\* mutant: a toggle that finds the path incomplete sets it back to 'active'
UpdatePathStatsReverting(ps, pid, stats, isFullyCompleted, at) ==
    [ps EXCEPT ![pid] =
        [@ EXCEPT !.completed_topics = stats.completed_topics,
                  !.completed_stages = stats.completed_stages,
                  !.last_accessed_at = at,
                  !.status = IF isFullyCompleted THEN "completed" ELSE "active",
                  !.completed_at = IF isFullyCompleted THEN at ELSE @]]

\* .from('user_paths').update(updateData).eq('id', pid); at is what new
\* Date() returned when updateData was built
UpdatePathStats(ps, pid, stats, isFullyCompleted, at) ==
    [ps EXCEPT ![pid] =
        [@ EXCEPT !.completed_topics = stats.completed_topics,
                  !.completed_stages = stats.completed_stages,
                  !.last_accessed_at = at,
                  !.status = IF isFullyCompleted THEN "completed" ELSE @,
                  !.completed_at = IF isFullyCompleted THEN at ELSE @]]

\* mutant: the restart leaves completed_at as it was
ResetPathKeepingCompletedAt(ps, pid, at) ==
    [ps EXCEPT ![pid] =
        [@ EXCEPT !.completed_topics = 0,
                  !.completed_stages = 0,
                  !.status = "active",
                  !.last_accessed_at = at]]

\* the update of POST /api/paths/:id/restart
ResetPath(ps, pid, at) ==
    [ps EXCEPT ![pid] =
        [@ EXCEPT !.completed_topics = 0,
                  !.completed_stages = 0,
                  !.status = "active",
                  !.completed_at = NullTime,
                  !.last_accessed_at = at]]

(***************************************************************************)
(* achievements.js.                                                        *)
(***************************************************************************)
AchievementRow(user, pathId, type) ==
    [user_id |-> user, path_id |-> pathId, type |-> type]

\* the rows of the table that satisfy a filter, counted with multiplicity
CountRows(ach, Filter(_)) ==
    BagCardinality([r \in {q \in BagToSet(ach) : Filter(q)} |-> ach[r]])

\* mutant: the existence check of createAchievement never finds a row
HasAchievementNever(ach, user, pathId, type) == FALSE

\* .eq('user_id', user).eq('path_id', pathId).eq('type', type).single():
\* TRUE when data is a row
HasAchievement(ach, user, pathId, type) ==
    CountRows(ach, LAMBDA r : r.user_id = user /\ r.path_id = pathId
                                /\ r.type = type) = 1

\* .eq('user_id', user).eq('type', type).single(): TRUE when data is a row
HasAchievementOfType(ach, user, type) ==
    CountRows(ach, LAMBDA r : r.user_id = user /\ r.type = type) = 1

\* .from('achievements').insert({user_id, path_id, type, ...})
InsertAchievement(ach, user, pathId, type) ==
    ach (+) SetToBag({AchievementRow(user, pathId, type)})

Milestones ==
    << [count |-> 5, type |-> "milestone_5"],
       [count |-> 10, type |-> "milestone_10"],
       [count |-> 25, type |-> "milestone_25"],
       [count |-> 50, type |-> "milestone_50"] >>

\* mutant: no milestone is looked at
DueMilestoneNone(pathCount, from) == 0

\* for (const milestone of milestones) if (pathCount >= milestone.count):
\* the first milestone from position `from` on that the loop awaits the
\* existence check of, or 0 when the loop ends
DueMilestone(pathCount, from) ==
    LET due == {m \in from..Len(Milestones) : pathCount >= Milestones[m].count}
    IN  IF due = {} THEN 0 ELSE CHOOSE m \in due : \A n \in due : m <= n

(***************************************************************************)
(* The response sent last, with its request.  An error response carries    *)
(* the status code alone (and, for 409, existingPathId).                   *)
(***************************************************************************)
Answer(op, user, pid, code) ==
    [op |-> op, user |-> user, pathId |-> pid, code |-> code,
     completedTopics |-> 0, completedStages |-> 0, isFullyCompleted |-> FALSE,
     newAchievements |-> <<>>, existingPathId |-> NullId]

Failure(op, code) == Answer(op, 0, NullId, code)

NoAnswer == Answer("none", 0, NullId, 0)

\* no payload
NoPayload == [isNew |-> FALSE, stages |-> <<>>, units |-> <<>>]

\* a request: its body and parameters, and the locals of its handler (the
\* path row it read, the stats it counted, the times new Date() returned to
\* it, the number of completed paths it counted, the milestone its loop is
\* at, the achievements it was returned so far); code is the status code it
\* was answered with
IdleReq ==
    [pc |-> "idle", op |-> "", user |-> 0, pid |-> NullId, stageIndex |-> 0,
     itemType |-> "", itemIndex |-> 0, isCompleted |-> FALSE, notes |-> NoNotes,
     topic |-> <<>>, pathData |-> NoPayload, replace |-> FALSE,
     totals |-> [totalStages |-> 0, totalTopics |-> 0, throws |-> FALSE],
     total_topics |-> 0, status |-> "", completed_topics |-> 0,
     completed_stages |-> 0, isNewCompletion |-> FALSE, at |-> NullTime,
     pathCount |-> 0, milestone |-> 0, newAchievements |-> <<>>,
     progressMap |-> {}, code |-> 0]

\* the request q once it is answered with status code `code`: of its locals
\* the model keeps what the properties look at
Done(q, code) ==
    [IdleReq EXCEPT !.pc = "done", !.op = q.op, !.user = q.user, !.pid = q.pid,
                    !.topic = q.topic, !.completed_topics = q.completed_topics,
                    !.isNewCompletion = q.isNewCompletion, !.code = code]

\* no generation is in flight
NoGen == [pc |-> "idle"]

\* a handleContinuePath that is not running
NoFetch == [pc |-> "free"]

\* no key: updating === null
NoKey == <<>>

\* the App shows no saved path, so no progress view is on screen:
\* currentSavedPath is null.  calls are the toggle handlers of earlier views
\* that still wait for their response, fetches the runs of
\* handleContinuePath
Unmounted(calls, fetches) ==
    [pc |-> "unmounted", pathId |-> NullId, path |-> NoPayload,
     localProgress |-> {}, updating |-> NoKey, completedTopics |-> 0,
     calls |-> calls, fetches |-> fetches]

\* no progress view, no handler of one, and no fetch
NoView == Unmounted(<<>>, <<>>)

ReqIds == DOMAIN reqs

\* no request is in flight
Quiet == \A r \in ReqIds : reqs[r].pc \in {"idle", "done"}

\* a request can arrive in slot r
Free(r) == reqs[r].pc \in {"idle", "done"}

ReqStats(q) ==
    [completed_topics |-> q.completed_topics, completed_stages |-> q.completed_stages]

ReqAnswer(q, new) ==
    [Answer("toggle", q.user, q.pid, 200) EXCEPT
        !.completedTopics = q.completed_topics,
        !.completedStages = q.completed_stages,
        !.isFullyCompleted = IsFullyCompleted(ReqStats(q), q),
        !.newAchievements = new]

(***************************************************************************)
(* PUT /api/paths/:id/progress.                                            *)
(***************************************************************************)
\* the request arrives and passes validateProgressUpdate, or is refused
Arrival(r, user, pid, stageIndex, itemType, itemIndex, isCompleted, notes) ==
    /\ Free(r)
    /\ IF validateProgressUpdate(stageIndex, itemType, itemIndex)
       THEN /\ reqs' = [reqs EXCEPT ![r] =
                          [IdleReq EXCEPT !.pc = "read", !.op = "toggle",
                                          !.user = user, !.pid = pid,
                                          !.stageIndex = stageIndex,
                                          !.itemType = itemType,
                                          !.itemIndex = itemIndex,
                                          !.isCompleted = isCompleted,
                                          !.notes = notes]]
            /\ UNCHANGED last
       ELSE /\ reqs' = [reqs EXCEPT ![r] =
                          Done([IdleReq EXCEPT !.op = "toggle"], 400)]
            /\ last' = Failure("toggle", 400)
    /\ UNCHANGED <<paths, progress, achievements, now, gen>>

\* the request of a client other than the progress view of the model
Arrive(r, user, pid, stageIndex, itemType, itemIndex, isCompleted, notes) ==
    /\ Arrival(r, user, pid, stageIndex, itemType, itemIndex, isCompleted, notes)
    /\ UNCHANGED view

\* 172-197: the ownership read; the handler then builds the row to upsert,
\* with new Date()
ReadPath(r) ==
    /\ reqs[r].pc = "read"
    /\ IF SelectOwnedPath(paths, reqs[r].pid, reqs[r].user) = {}
       THEN /\ reqs' = [reqs EXCEPT ![r] = Done(reqs[r], 404)]
            /\ last' = Failure("toggle", 404)
       ELSE /\ reqs' = [reqs EXCEPT ![r].pc = "upsert",
                                    ![r].total_topics = paths[reqs[r].pid].total_topics,
                                    ![r].status = paths[reqs[r].pid].status,
                                    ![r].at = now]
            /\ UNCHANGED last
    /\ UNCHANGED <<paths, progress, achievements, now, gen, view>>

\* 184-199: the upsert
UpsertStep(r) ==
    /\ reqs[r].pc = "upsert"
    /\ progress' = UpsertProgress(progress,
                       ProgressRow(reqs[r].pid, reqs[r].user, reqs[r].stageIndex,
                                   reqs[r].itemType, reqs[r].itemIndex,
                                   reqs[r].isCompleted, reqs[r].notes, reqs[r].at))
    /\ reqs' = [reqs EXCEPT ![r].pc = "recount"]
    /\ UNCHANGED <<paths, achievements, now, last, gen, view>>

\* 202-233: the recount; the handler then computes isFullyCompleted and
\* isNewCompletion and builds updateData, with new Date()
RecountStep(r) ==
    /\ reqs[r].pc = "recount"
    /\ LET stats == Recount(progress, reqs[r].pid)
           full == IsFullyCompleted(stats, reqs[r])
       IN  reqs' = [reqs EXCEPT ![r].pc = "update",
                                ![r].completed_topics = stats.completed_topics,
                                ![r].completed_stages = stats.completed_stages,
                                ![r].isNewCompletion = IsNewCompletion(full, reqs[r]),
                                ![r].at = now]
    /\ UNCHANGED <<paths, progress, achievements, now, last, gen, view>>

\* 235-242, 273-279: the path update; the response when this is no completion
\* transition
UpdateStep(r) ==
    /\ reqs[r].pc = "update"
    /\ LET q == reqs[r]
           full == IsFullyCompleted(ReqStats(q), q)
       IN  /\ paths' = UpdatePathStats(paths, q.pid, ReqStats(q), full, q.at)
           /\ IF q.isNewCompletion
              THEN /\ reqs' = [reqs EXCEPT ![r].pc = "info"]
                   /\ UNCHANGED last
              ELSE /\ reqs' = [reqs EXCEPT ![r] = Done(q, 200)]
                   /\ last' = ReqAnswer(q, <<>>)
    /\ UNCHANGED <<progress, achievements, now, gen, view>>

\* 244-250: the read of pathInfo
InfoStep(r) ==
    /\ reqs[r].pc = "info"
    /\ IF Single({i \in PathIds : i = reqs[r].pid}) = {}
       THEN /\ reqs' = [reqs EXCEPT ![r] = Done(reqs[r], 200)]
            /\ last' = ReqAnswer(reqs[r], <<>>)
       ELSE /\ reqs' = [reqs EXCEPT ![r].pc = "exists"]
            /\ UNCHANGED last
    /\ UNCHANGED <<paths, progress, achievements, now, gen, view>>

\* achievements.js 189-201: createAchievement's existence check of
\* path_completion
ExistsStep(r) ==
    /\ reqs[r].pc = "exists"
    /\ IF HasAchievement(achievements, reqs[r].user, reqs[r].pid, "path_completion")
       THEN reqs' = [reqs EXCEPT ![r].pc = "first"]
       ELSE reqs' = [reqs EXCEPT ![r].pc = "insert"]
    /\ UNCHANGED <<paths, progress, achievements, now, last, gen, view>>

\* achievements.js 203-222: the insert of path_completion, while the table
\* holds fewer than maxAchievements rows
InsertStep(r, maxAchievements) ==
    /\ reqs[r].pc = "insert"
    /\ BagCardinality(achievements) < maxAchievements
    /\ achievements' = InsertAchievement(achievements, reqs[r].user, reqs[r].pid,
                                         "path_completion")
    /\ reqs' = [reqs EXCEPT ![r].pc = "first",
                            ![r].newAchievements = Append(@, "path_completion")]
    /\ UNCHANGED <<paths, progress, now, last, gen, view>>

\* achievements.js 227-244: checkFirstPathAchievement's read of the completed
\* paths
FirstStep(r) ==
    /\ reqs[r].pc = "first"
    /\ IF Cardinality(SelectCompleted(paths, reqs[r].user)) = 1
       THEN reqs' = [reqs EXCEPT ![r].pc = "firstInsert"]
       ELSE reqs' = [reqs EXCEPT ![r].pc = "milestones"]
    /\ UNCHANGED <<paths, progress, achievements, now, last, gen, view>>

\* achievements.js 203-222, called with pathId null: the insert of first_path
FirstInsertStep(r, maxAchievements) ==
    /\ reqs[r].pc = "firstInsert"
    /\ BagCardinality(achievements) < maxAchievements
    /\ achievements' = InsertAchievement(achievements, reqs[r].user, NullId,
                                         "first_path")
    /\ reqs' = [reqs EXCEPT ![r].pc = "milestones",
                            ![r].newAchievements = Append(@, "first_path")]
    /\ UNCHANGED <<paths, progress, now, last, gen, view>>

\* achievements.js 264-290, paths.js 269-279: the loop over the milestones
\* runs on from position `from` to its next await; past the last milestone
\* the helper returns and the handler responds.  q is the request as the
\* step before left it
MilestoneLoop(r, q, from) ==
    LET m == DueMilestone(q.pathCount, from)
    IN  IF m = 0
        THEN /\ reqs' = [reqs EXCEPT ![r] = Done(q, 200)]
             /\ last' = ReqAnswer(q, q.newAchievements)
        ELSE /\ reqs' = [reqs EXCEPT ![r] = [q EXCEPT !.pc = "check", !.milestone = m]]
             /\ UNCHANGED last

\* achievements.js 249-255: checkMilestoneAchievements' read of the completed
\* paths
MilestoneCountStep(r) ==
    /\ reqs[r].pc = "milestones"
    /\ MilestoneLoop(r, [reqs[r] EXCEPT
                            !.pathCount = Cardinality(SelectCompleted(paths, reqs[r].user))],
                     1)
    /\ UNCHANGED <<paths, progress, achievements, now, gen, view>>

\* achievements.js 268-275: the existence check of the milestone the loop is
\* at
MilestoneCheckStep(r) ==
    /\ reqs[r].pc = "check"
    /\ IF HasAchievementOfType(achievements, reqs[r].user,
                               Milestones[reqs[r].milestone].type)
       THEN MilestoneLoop(r, reqs[r], reqs[r].milestone + 1)
       ELSE /\ reqs' = [reqs EXCEPT ![r].pc = "award"]
            /\ UNCHANGED last
    /\ UNCHANGED <<paths, progress, achievements, now, gen, view>>

\* achievements.js 276-285, 203-222: the insert of the milestone the loop is
\* at
MilestoneInsertStep(r, maxAchievements) ==
    /\ reqs[r].pc = "award"
    /\ BagCardinality(achievements) < maxAchievements
    /\ achievements' = InsertAchievement(achievements, reqs[r].user, NullId,
                                         Milestones[reqs[r].milestone].type)
    /\ MilestoneLoop(r, [reqs[r] EXCEPT
                            !.newAchievements =
                                Append(@, Milestones[reqs[r].milestone].type)],
                     reqs[r].milestone + 1)
    /\ UNCHANGED <<paths, progress, now, gen, view>>

(***************************************************************************)
(* POST /api/paths.                                                        *)
(***************************************************************************)
\* 117-121: a request with the body {topic, pathData, replace} arrives and
\* passes validatePathData, and the handler computes the totals, or the
\* request is refused.  The handler reads topic and pathData from the body,
\* and nothing else
SaveRequest(r, user, topic, pathData, replace) ==
    /\ Free(r)
    /\ LET valid == validatePathData(topic, pathData)
           totals == calculatePathTotals(pathData)
           q == [IdleReq EXCEPT !.op = "save", !.user = user,
                                !.topic = sanitizeString(topic),
                                !.pathData = pathData, !.replace = replace]
       IN  IF valid = "invalid"
           THEN /\ reqs' = [reqs EXCEPT ![r] = Done([IdleReq EXCEPT !.op = "save"], 400)]
                /\ last' = Failure("save", 400)
           ELSE IF totals.throws
           THEN /\ reqs' = [reqs EXCEPT ![r] = Done(q, 500)]
                /\ last' = Failure("save", 500)
           ELSE /\ reqs' = [reqs EXCEPT ![r] =
                              [q EXCEPT !.pc = "existing", !.totals = totals]]
                /\ UNCHANGED last
    /\ UNCHANGED <<paths, progress, achievements, now, gen, view>>

\* 123-137: the read of an active path of the topic
SaveCheck(r) ==
    /\ reqs[r].pc = "existing"
    /\ LET existing == SelectActiveByTopic(paths, reqs[r].user, reqs[r].topic)
       IN  IF existing # {}
           THEN /\ reqs' = [reqs EXCEPT ![r] = Done(reqs[r], 409)]
                /\ last' = [Failure("save", 409) EXCEPT
                               !.existingPathId = TheRow(existing)]
           ELSE /\ reqs' = [reqs EXCEPT ![r].pc = "store"]
                /\ UNCHANGED last
    /\ UNCHANGED <<paths, progress, achievements, now, gen, view>>

\* 139-159: the insert and the response, while the table holds fewer than
\* maxPaths rows
SaveInsert(r, maxPaths) ==
    /\ reqs[r].pc = "store"
    /\ Len(paths) < maxPaths
    /\ paths' = Append(paths, NewPathRow(reqs[r].user, reqs[r].topic,
                                         reqs[r].pathData, reqs[r].totals, now))
    /\ reqs' = [reqs EXCEPT ![r] = Done([reqs[r] EXCEPT !.pid = Len(paths) + 1], 201)]
    /\ last' = Answer("save", reqs[r].user, Len(paths) + 1, 201)
    /\ UNCHANGED <<progress, achievements, now, gen, view>>

(***************************************************************************)
(* DELETE /api/paths/:id: the handler awaits one database call.            *)
(***************************************************************************)
Archive(user, pid) ==
    LET hit == {i \in PathIds : i = pid /\ paths[i].user_id = user}
    IN  IF hit = {}
        THEN /\ last' = Failure("archive", 404)
             /\ UNCHANGED <<paths, progress, achievements, now, reqs, gen, view>>
        ELSE /\ paths' = [paths EXCEPT ![pid].status = "archived"]
             /\ last' = Answer("archive", user, pid, 200)
             /\ UNCHANGED <<progress, achievements, now, reqs, gen, view>>

(***************************************************************************)
(* POST /api/paths/:id/restart.                                            *)
(***************************************************************************)
\* 310-319: the request arrives and its ownership read returns
RestartRead(r, user, pid) ==
    /\ Free(r)
    /\ LET q == [IdleReq EXCEPT !.op = "restart", !.user = user, !.pid = pid]
       IN  IF SelectOwnedPath(paths, pid, user) = {}
           THEN /\ reqs' = [reqs EXCEPT ![r] = Done(q, 404)]
                /\ last' = Failure("restart", 404)
           ELSE /\ reqs' = [reqs EXCEPT ![r] = [q EXCEPT !.pc = "delete"]]
                /\ UNCHANGED last
    /\ UNCHANGED <<paths, progress, achievements, now, gen, view>>

\* 322-336: the progress records are deleted; the handler then builds the
\* update, with new Date()
RestartDelete(r) ==
    /\ reqs[r].pc = "delete"
    /\ progress' = {row \in progress : row.path_id # reqs[r].pid}
    /\ reqs' = [reqs EXCEPT ![r].pc = "reset", ![r].at = now]
    /\ UNCHANGED <<paths, achievements, now, last, gen, view>>

\* 328-339: the path is reset, and the response
RestartReset(r) ==
    /\ reqs[r].pc = "reset"
    /\ paths' = ResetPath(paths, reqs[r].pid, reqs[r].at)
    /\ reqs' = [reqs EXCEPT ![r] = Done(reqs[r], 200)]
    /\ last' = Answer("restart", reqs[r].user, reqs[r].pid, 200)
    /\ UNCHANGED <<progress, achievements, now, gen, view>>

(***************************************************************************)
(* GET /api/paths: the handler awaits one database call.                   *)
(***************************************************************************)
\* .eq('user_id', user).neq('status', 'archived'): the ids of the rows
ListPaths(ps, user) ==
    {i \in 1..Len(ps) : ps[i].user_id = user /\ ps[i].status # "archived"}

\* .order('last_accessed_at', { ascending: false }): the orders the rows can
\* be returned in; rows of one time come in any order
ListOrders(ps, user) ==
    {s \in [1..Cardinality(ListPaths(ps, user)) -> ListPaths(ps, user)] :
        \A i \in DOMAIN s : \A j \in DOMAIN s :
            i < j => /\ s[i] # s[j]
                     /\ ps[s[i]].last_accessed_at >= ps[s[j]].last_accessed_at}

(***************************************************************************)
(* The arithmetic of the JS Number (IEEE 754 binary64) on positive values: *)
(* a Number is m * 2^e, m a sequence of 53 bits that starts with 1.        *)
(***************************************************************************)
MantissaBits == 53

RECURSIVE Pow2(_)
Pow2(k) == IF k = 0 THEN 1 ELSE 2 * Pow2(k - 1)

\* the bits of a natural number, the most significant first
RECURSIVE Bits(_)
Bits(n) == IF n = 0 THEN <<>> ELSE Append(Bits(n \div 2), n % 2)

\* the natural number of a sequence of bits
RECURSIVE BitsValue(_)
BitsValue(b) ==
    IF Len(b) = 0 THEN 0
    ELSE IF Len(b) = 1 THEN b[1]
    ELSE LET h == Len(b) \div 2
         IN  BitsValue(SubSeq(b, 1, h)) * Pow2(Len(b) - h) + BitsValue(SubSeq(b, h + 1, Len(b)))

\* b + 1 in the bits of b; a sequence of ones gives zeros
Increment(b) ==
    LET zeros == {i \in DOMAIN b : b[i] = 0}
        z == IF zeros = {} THEN 0 ELSE CHOOSE i \in zeros : \A j \in zeros : j <= i
    IN  [i \in DOMAIN b |-> IF i < z THEN b[i] ELSE IF i = z THEN 1 ELSE 0]

\* roundTiesToEven: the Number of m * 2^e plus a rest of less than 2^e that
\* is "below", at ("half") or "above" half of 2^e
RoundTiesToEven(m, e, rest) ==
    LET up == rest = "above" \/ (rest = "half" /\ m[Len(m)] = 1)
        n == Increment(m)
    IN  IF ~up THEN [m |-> m, e |-> e]
        ELSE IF n[1] = 1 THEN [m |-> n, e |-> e]
        ELSE [m |-> <<1>> \o SubSeq(n, 1, Len(n) - 1), e |-> e + 1]

\* the k with d * 2^k <= n < d * 2^(k+1), for naturals n, d > 0
RECURSIVE Exponent(_, _)
Exponent(n, d) ==
    IF n < d THEN Exponent(2 * n, d) - 1
    ELSE IF n >= 2 * d THEN Exponent(n, 2 * d) + 1
    ELSE 0

\* the first count >= 1 binary digits of n / d, for n < 2 * d, and twice
\* the remainder they leave
RECURSIVE DivideBits(_, _, _)
DivideBits(n, d, count) ==
    IF count = 1
    THEN LET bit == IF n >= d THEN 1 ELSE 0
         IN  [bits |-> <<bit>>, rem |-> 2 * (n - bit * d)]
    ELSE LET first == DivideBits(n, d, count \div 2)
             second == DivideBits(first.rem, d, count - count \div 2)
         IN  [bits |-> first.bits \o second.bits, rem |-> second.rem]

\* a / b of naturals a, b > 0
Quotient(a, b) ==
    LET k == Exponent(a, b)
        n0 == IF k < 0 THEN a * Pow2(0 - k) ELSE a
        d0 == IF k > 0 THEN b * Pow2(k) ELSE b
        q == DivideBits(n0, d0, MantissaBits)
    IN  RoundTiesToEven(q.bits, k - (MantissaBits - 1),
                        IF q.rem > d0 THEN "above"
                        ELSE IF q.rem = d0 THEN "half" ELSE "below")

\* the last Len(b) binary digits of b * f + carry, the least significant
\* first, and what it carries beyond them, for a natural f > 0
RECURSIVE TimesSmall(_, _, _)
TimesSmall(b, f, carry) ==
    IF Len(b) = 1
    THEN [digits |-> <<(b[1] * f + carry) % 2>>, carry |-> (b[1] * f + carry) \div 2]
    ELSE LET h == Len(b) \div 2
             low == TimesSmall(SubSeq(b, h + 1, Len(b)), f, carry)
             high == TimesSmall(SubSeq(b, 1, h), f, low.carry)
         IN  [digits |-> low.digits \o high.digits, carry |-> high.carry]

\* a sequence, the last element first
Reverse(s) == [i \in 1..Len(s) |-> s[Len(s) + 1 - i]]

\* x * f of a Number x and a natural f > 0
Product(x, f) ==
    LET t == TimesSmall(x.m, f, 0)
        p == Bits(t.carry) \o Reverse(t.digits)
        tail == SubSeq(p, MantissaBits + 1, Len(p))
    IN  RoundTiesToEven(SubSeq(p, 1, MantissaBits), x.e + Len(tail),
                        IF tail = <<>> \/ tail[1] = 0 THEN "below"
                        ELSE IF \E i \in 2..Len(tail) : tail[i] = 1 THEN "above"
                        ELSE "half")

\* Math.round(x) of a Number x below 2^31: the integer nearest to x, the
\* greater of two that are equally near
MathRound(x) ==
    LET w == MantissaBits + x.e
    IN  IF w < 0 THEN 0
        ELSE BitsValue(SubSeq(x.m, 1, w)) + x.m[w + 1]

\* progress_percent of a row of GET /api/paths:
\* Math.round((p.completed_topics / p.total_topics) * 100)
progress_percent(p) ==
    IF p.total_topics > 0
    THEN IF p.completed_topics = 0 THEN 0
         ELSE MathRound(Product(Quotient(p.completed_topics, p.total_topics), 100))
    ELSE 0

\* GET /api/paths
List(user) ==
    /\ \E order \in ListOrders(paths, user) :
          last' = Answer("list", user, NullId, 200)
                     @@ [listed |-> order,
                         progress_percent |->
                             [n \in DOMAIN order |-> progress_percent(paths[order[n]])]]
    /\ UNCHANGED <<paths, progress, achievements, now, reqs, gen, view>>

\* time passes
Tick ==
    /\ now < MaxNow
    /\ now' = now + 1
    /\ UNCHANGED <<paths, progress, achievements, last, reqs, gen, view>>

(***************************************************************************)
(* GET /api/paths/:id.                                                     *)
(***************************************************************************)
\* the lookup map, a set of entries, one per key:
\* const key = `${item.stage_index}-${item.item_type}-${item.item_index}`
progressMapOf(items) ==
    { [key |-> <<r.stage_index, r.item_type, r.item_index>>,
       is_completed |-> r.is_completed] : r \in items }

\* 63-75: the request arrives and its read of the path returns
GetArrival(r, user, pid) ==
    /\ Free(r)
    /\ LET q == [IdleReq EXCEPT !.op = "get", !.user = user, !.pid = pid]
       IN  IF SelectOwnedPath(paths, pid, user) = {}
           THEN /\ reqs' = [reqs EXCEPT ![r] = Done(q, 404)]
                /\ last' = Failure("get", 404)
           ELSE /\ reqs' = [reqs EXCEPT ![r] =
                              [q EXCEPT !.pc = "items",
                                        !.status = paths[pid].status,
                                        !.pathData = paths[pid].path_data,
                                        !.completed_topics = paths[pid].completed_topics,
                                        !.completed_stages = paths[pid].completed_stages]]
                /\ UNCHANGED last
    /\ UNCHANGED <<paths, progress, achievements, now, gen>>

\* the request of a client other than the App of the model
GetRead(r, user, pid) ==
    /\ GetArrival(r, user, pid)
    /\ UNCHANGED view

\* 78-93: the read of the progress items; the handler then builds the lookup
\* map and the update, with new Date()
GetItems(r) ==
    /\ reqs[r].pc = "items"
    /\ reqs' = [reqs EXCEPT
                  ![r].pc = "touch",
                  ![r].progressMap =
                      progressMapOf({row \in progress : row.path_id = reqs[r].pid}),
                  ![r].at = now]
    /\ UNCHANGED <<paths, progress, achievements, now, last, gen, view>>

\* 91-109: the update of last_accessed_at, and the response, of the row as
\* it was read
GetTouch(r) ==
    /\ reqs[r].pc = "touch"
    /\ paths' = [paths EXCEPT ![reqs[r].pid].last_accessed_at = reqs[r].at]
    /\ reqs' = [reqs EXCEPT ![r] =
                  [Done(reqs[r], 200) EXCEPT !.status = reqs[r].status,
                                             !.pathData = reqs[r].pathData,
                                             !.completed_stages = reqs[r].completed_stages,
                                             !.progressMap = reqs[r].progressMap]]
    /\ last' = [Answer("get", reqs[r].user, reqs[r].pid, 200) EXCEPT
                    !.completedTopics = reqs[r].completed_topics,
                    !.completedStages = reqs[r].completed_stages]
                   @@ [status |-> reqs[r].status,
                       pathData |-> reqs[r].pathData,
                       progressMap |-> reqs[r].progressMap]
    /\ UNCHANGED <<progress, achievements, now, gen, view>>

(***************************************************************************)
(* ai.js, POST /api/ai/learning-path.  The provider's outline is a         *)
(* sequence of units, a unit a sequence of levels, a level the sequence of  *)
(* its lessons, a lesson its title and its searchQuery (<<>> when the       *)
(* outline has none), both strings of UTF-16 code units.  unitIndex,        *)
(* levelIndex and lessonIndex count from 0, as the map callbacks receive    *)
(* them.                                                                    *)
(***************************************************************************)
\* const xpReward = 10 + Math.floor(Math.random() * 6)
XpBase == 10
XpSpread == 6

LevelKeys(outline) ==
    UNION {{<<u, l>> : l \in 0..Len(outline[u + 1]) - 1} : u \in 0..Len(outline) - 1}

LessonKeys(outline) ==
    UNION {{<<k[1], k[2], s>> : s \in 0..Len(outline[k[1] + 1][k[2] + 1]) - 1} :
              k \in LevelKeys(outline)}

UnitKeys(outline) == {<<u>> : u \in 0..Len(outline) - 1}

\* `u${unitIndex + 1}-l${levelIndex + 1}-s${lessonIndex + 1}`
LessonId(unitIndex, levelIndex, lessonIndex) ==
    <<"u", unitIndex + 1, "l", levelIndex + 1, "s", lessonIndex + 1>>

\* `u${unitIndex + 1}-l${levelIndex + 1}`
LevelId(unitIndex, levelIndex) == <<"u", unitIndex + 1, "l", levelIndex + 1>>

\* `u${unitIndex + 1}`
UnitId(unitIndex) == <<"u", unitIndex + 1>>

\* what searchYouTubeVideo returns when it returns null
NoVideo == [threw |-> FALSE, found |-> FALSE]

\* what the lookup of one lesson meets: is the API key set, and how the
\* search request and the details request end ("ok", "fail": response not
\* ok, "empty": no items, "throws": fetch or parsing throws)
LookupWorld(apiKey, search, videos) ==
    [apiKey |-> apiKey, search |-> search, videos |-> videos,
     viewCount |-> 1500, durationMin |-> 5]

\* "https://www.youtube.com/watch?v="
WatchUrl ==
    <<104, 116, 116, 112, 115, 58, 47, 47, 119, 119, 119, 46, 121, 111, 117,
      116, 117, 98, 101, 46, 99, 111, 109, 47, 119, 97, 116, 99, 104, 63,
      118, 61>>

\* "https://www.youtube.com/results?search_query="
ResultsUrl ==
    <<104, 116, 116, 112, 115, 58, 47, 47, 119, 119, 119, 46, 121, 111, 117,
      116, 117, 98, 101, 46, 99, 111, 109, 47, 114, 101, 115, 117, 108, 116,
      115, 63, 115, 101, 97, 114, 99, 104, 95, 113, 117, 101, 114, 121, 61>>

\* async function searchYouTubeVideo(query)
searchYouTubeVideo(w) ==
    IF ~w.apiKey THEN NoVideo
    ELSE IF w.search = "throws" THEN NoVideo
    ELSE IF w.search = "fail" THEN NoVideo
    ELSE IF w.search = "empty" THEN NoVideo
    ELSE IF w.videos = "throws" THEN NoVideo
    ELSE IF w.videos = "fail" THEN NoVideo
    ELSE IF w.videos = "empty" THEN NoVideo
    ELSE [threw |-> FALSE, found |-> TRUE, videoId |-> "v", viewCount |-> w.viewCount,
          durationMin |-> w.durationMin, url |-> WatchUrl \o <<118>>]

\* the characters encodeURIComponent leaves as they are:
\* A-Z a-z 0-9 - _ . ! ~ * ' ( )
Unreserved ==
    (65 .. 90) \cup (97 .. 122) \cup (48 .. 57)
        \cup {45, 95, 46, 33, 126, 42, 39, 40, 41}

\* the code units U+D800..U+DBFF and U+DC00..U+DFFF
IsHighSurrogate(c) == c \in 55296 .. 56319

IsLowSurrogate(c) == c \in 56320 .. 57343

\* the code point of a surrogate pair
CodePoint(high, low) == (high - 55296) * 1024 + (low - 56320) + 65536

\* the bytes of the UTF-8 encoding of a code point
Utf8(cp) ==
    IF cp < 128 THEN <<cp>>
    ELSE IF cp < 2048 THEN <<192 + (cp \div 64), 128 + (cp % 64)>>
    ELSE IF cp < 65536
         THEN <<224 + (cp \div 4096), 128 + ((cp \div 64) % 64), 128 + (cp % 64)>>
    ELSE <<240 + (cp \div 262144), 128 + ((cp \div 4096) % 64),
           128 + ((cp \div 64) % 64), 128 + (cp % 64)>>

\* a digit of "0123456789ABCDEF"
HexDigit(n) == IF n < 10 THEN 48 + n ELSE 55 + n

\* a code point as its UTF-8 bytes, each written %XX
RECURSIVE PercentBytes(_)
PercentBytes(bytes) ==
    IF bytes = <<>> THEN <<>>
    ELSE <<37, HexDigit(Head(bytes) \div 16), HexDigit(Head(bytes) % 16)>>
             \o PercentBytes(Tail(bytes))

\* what encodeURIComponent does when it throws
URIError == [threw |-> TRUE, value |-> <<>>]

\* encodeURIComponent(s): the encoded string, or a URIError when s holds a
\* surrogate that is not half of a pair
RECURSIVE encodeURIComponent(_)
encodeURIComponent(s) ==
    IF s = <<>> THEN [threw |-> FALSE, value |-> <<>>]
    ELSE LET c == Head(s)
             paired == Len(s) >= 2 /\ IsHighSurrogate(c) /\ IsLowSurrogate(s[2])
             first == IF c \in Unreserved THEN <<c>>
                      ELSE IF paired THEN PercentBytes(Utf8(CodePoint(c, s[2])))
                      ELSE PercentBytes(Utf8(c))
             rest == encodeURIComponent(SubSeq(s, IF paired THEN 3 ELSE 2, Len(s)))
         IN  IF (IsHighSurrogate(c) \/ IsLowSurrogate(c)) /\ ~paired THEN URIError
             ELSE IF rest.threw THEN URIError
             ELSE [threw |-> FALSE, value |-> first \o rest.value]

\* lesson.searchQuery || topic + ' ' + lesson.title
SearchQuery(topic, lesson) ==
    IF lesson.searchQuery # <<>> THEN lesson.searchQuery
    ELSE topic \o <<32>> \o lesson.title

\* 315-325: the resource of a lesson whose lookup returned null; building
\* its url throws when encodeURIComponent does
Placeholder(topic, lesson) ==
    LET encoded == encodeURIComponent(SearchQuery(topic, lesson))
    IN  IF encoded.threw THEN URIError
        ELSE [threw |-> FALSE, found |-> FALSE, videoId |-> "", viewCount |-> 0,
              durationMin |-> 0, url |-> ResultsUrl \o encoded.value]

\* video || { ... }
Resource(topic, lesson, video) ==
    IF video.found THEN video ELSE Placeholder(topic, lesson)

\* the object a lesson callback returns
Lesson(outline, key, xpReward, resource) ==
    [id |-> LessonId(key[1], key[2], key[3]),
     title |-> outline[key[1] + 1][key[2] + 1][key[3] + 1].title,
     xpReward |-> xpReward,
     resource |-> resource]

RECURSIVE SumOver(_, _)
SumOver(S, f) ==
    IF S = {} THEN 0
    ELSE LET x == CHOOSE y \in S : TRUE IN f[x] + SumOver(S \ {x}, f)

\* mutant: the reduce has no initial value and starts from the first lesson
\* itself, whose xpReward it never adds
ReduceXpWithoutInitial(lessons) ==
    IF lessons = <<>> THEN 0
    ELSE SumOver(2..Len(lessons), [n \in 2..Len(lessons) |-> lessons[n].xpReward])

\* lessons.reduce((sum, l) => sum + l.xpReward, 0)
RECURSIVE ReduceXp(_)
ReduceXp(lessons) ==
    IF lessons = <<>> THEN 0 ELSE Head(lessons).xpReward + ReduceXp(Tail(lessons))

\* mutant: the results are collected in the order the promises settled
PromiseAllAsSettled(keys, results, order) ==
    LET mine == SelectSeq(order, LAMBDA k : \E n \in 1..Len(keys) : keys[n] = k)
    IN  [n \in 1..Len(mine) |-> results[mine[n]]]

\* await Promise.all(keys.map(...)): the results in the order of the input
\* array, whatever the order in which the promises settled
PromiseAll(keys, results, order) ==
    [n \in 1..Len(keys) |-> results[keys[n]]]

\* the keys of the lessons of a level, the levels of a unit and the units, in
\* the order of the outline
LessonsOf(outline, u, l) == [n \in 1..Len(outline[u + 1][l + 1]) |-> <<u, l, n - 1>>]

LevelsOf(outline, u) == [n \in 1..Len(outline[u + 1]) |-> <<u, n - 1>>]

UnitsOf(outline) == [n \in 1..Len(outline) |-> <<n - 1>>]

InDomain(k, f) == \E d \in DOMAIN f : d = k

Settled(keys, results) == \A n \in 1..Len(keys) : InDomain(keys[n], results)

\* 282-308: the outline arrives and the three nested maps run, every
\* callback up to its first await: the counters are incremented, each lesson
\* draws its xpReward, and every lookup is started
Generate(topic, outline, draws) ==
    /\ gen.pc = "idle"
    /\ LET xp == [k \in LessonKeys(outline) |-> XpBase + draws[k]]
       IN  gen' = [pc |-> "lookups", topic |-> topic, outline |-> outline,
                   totalLessons |-> Cardinality(LessonKeys(outline)),
                   totalLevels |-> Cardinality(LevelKeys(outline)),
                   totalXp |-> SumOver(LessonKeys(outline), xp),
                   xpReward |-> xp,
                   results |-> <<>>, order |-> <<>>]
    /\ UNCHANGED <<paths, progress, achievements, now, last, reqs, view>>

\* 308-326: the lookup of a lesson returns and its callback returns the
\* lesson.  When the callback throws, every Promise.all above it rejects and
\* the handler's catch answers 500 (366-369); the lookups still under way
\* end unseen
LookupSettles(key, w) ==
    /\ gen.pc = "lookups"
    /\ key \in LessonKeys(gen.outline)
    /\ ~InDomain(key, gen.results)
    /\ LET lesson == gen.outline[key[1] + 1][key[2] + 1][key[3] + 1]
           resource == Resource(gen.topic, lesson, searchYouTubeVideo(w))
       IN  IF resource.threw
           THEN /\ gen' = [gen EXCEPT !.pc = "failed"]
                /\ last' = Failure("generate", 500)
           ELSE /\ gen' = [gen EXCEPT
                             !.results = (key :> Lesson(gen.outline, key,
                                                        gen.xpReward[key], resource))
                                         @@ @,
                             !.order = Append(@, key)]
                /\ last' = last
    /\ UNCHANGED <<paths, progress, achievements, now, reqs, view>>

\* 302, 329-340: the lessons of a level have all settled
AssembleLevel(u, l) ==
    /\ gen.pc = "lookups"
    /\ <<u, l>> \in LevelKeys(gen.outline)
    /\ ~InDomain(<<u, l>>, gen.results)
    /\ Settled(LessonsOf(gen.outline, u, l), gen.results)
    /\ LET lessons == PromiseAll(LessonsOf(gen.outline, u, l), gen.results, gen.order)
       IN  gen' = [gen EXCEPT
                     !.results = (<<u, l>> :> [id |-> LevelId(u, l),
                                               lessons |-> lessons,
                                               totalXp |-> ReduceXp(lessons)]) @@ @,
                     !.order = Append(@, <<u, l>>)]
    /\ UNCHANGED <<paths, progress, achievements, now, last, reqs, view>>

\* 299, 343-351: the levels of a unit have all settled
AssembleUnit(u) ==
    /\ gen.pc = "lookups"
    /\ <<u>> \in UnitKeys(gen.outline)
    /\ ~InDomain(<<u>>, gen.results)
    /\ Settled(LevelsOf(gen.outline, u), gen.results)
    /\ gen' = [gen EXCEPT
                 !.results = (<<u>> :> [id |-> UnitId(u),
                                        levels |-> PromiseAll(LevelsOf(gen.outline, u),
                                                              gen.results, gen.order)])
                             @@ @,
                 !.order = Append(@, <<u>>)]
    /\ UNCHANGED <<paths, progress, achievements, now, last, reqs, view>>

\* 298, 354-366: the units have all settled; the path is answered
Respond ==
    /\ gen.pc = "lookups"
    /\ Settled(UnitsOf(gen.outline), gen.results)
    /\ LET units == PromiseAll(UnitsOf(gen.outline), gen.results, gen.order)
       IN  last' = Answer("generate", 0, NullId, 200)
                      @@ [path |-> [totalUnits |-> Len(units),
                                    totalLevels |-> gen.totalLevels,
                                    totalLessons |-> gen.totalLessons,
                                    totalXp |-> gen.totalXp,
                                    units |-> units]]
    /\ gen' = [gen EXCEPT !.pc = "done"]
    /\ UNCHANGED <<paths, progress, achievements, now, reqs, view>>

(***************************************************************************)
(* The App and its progress view (ProgressLearningTree, which shows a      *)
(* legacy path in LegacyProgressTree).  handleContinuePath fetches a path  *)
(* with GET /api/paths/:id and shows it in the view; a click in the view   *)
(* runs a toggle handler, which sends <<stageIndex, itemType, itemIndex>>  *)
(* to PUT /api/paths/:id/progress with isCompleted set to the opposite of  *)
(* what the view holds for the item.                                       *)
(*                                                                         *)
(* localProgress is the map the view looks completion up in: a set of      *)
(* entries, one per key, of which the model keeps is_completed.  A key is  *)
(* the tuple of the parts the code joins with '-'.  The path shown has a   *)
(* suggested project in every stage.                                       *)
(*                                                                         *)
(* Every row of user_paths is written by POST /api/paths, which stores     *)
(* legacy payloads only (calculatePathTotals throws on a tree), so the     *)
(* view never shows a new-format path: of the handlers of the tree the     *)
(* model has the request handleToggleLesson builds.                        *)
(***************************************************************************)
\* const stageIndex = unitIndex * 100 + levelIndex
LevelSlots == 100

\* function isLearningPath(path)
isLearningPath(path) == path.isNew

\* LegacyProgressTree: updatePathProgress(pathId, stageIndex, itemType, itemIndex, ...)
handleToggleProgress(stageIndex, itemType, itemIndex) ==
    <<stageIndex, itemType, itemIndex>>

\* mutant: the lesson is sent under the item type of the tree's own key
handleToggleLessonAsLesson(unitIndex, levelIndex, lessonIndex) ==
    <<unitIndex * LevelSlots + levelIndex, "lesson", lessonIndex>>

\* ProgressLearningTree, handleToggleLesson(unitIndex, levelIndex,
\* lessonIndex): updatePathProgress(pathId, stageIndex, 'topic', lessonIndex, ...)
handleToggleLesson(unitIndex, levelIndex, lessonIndex) ==
    <<unitIndex * LevelSlots + levelIndex, "topic", lessonIndex>>

\* localProgress[key]?.is_completed === 1
IsCompletedAt(localProgress, key) ==
    \E e \in localProgress : e.key = key /\ e.is_completed = 1

\* mutant: an item counts as completed once the map has an entry of its key
isItemCompletedWhenRecorded(localProgress, stageIndex, itemType, itemIndex) ==
    \E e \in localProgress : e.key = <<stageIndex, itemType, itemIndex>>

\* LegacyProgressTree: isItemCompleted(stageIndex, itemType, itemIndex)
isItemCompleted(localProgress, stageIndex, itemType, itemIndex) ==
    IsCompletedAt(localProgress, <<stageIndex, itemType, itemIndex>>)

\* setLocalProgress(prev => ({...prev, [key]: {..., is_completed: currentlyCompleted ? 0 : 1}}))
setLocalProgress(localProgress, key, currentlyCompleted) ==
    {e \in localProgress : e.key # key}
        \cup {[key |-> key, is_completed |-> IF currentlyCompleted THEN 0 ELSE 1]}

\* the indexes of a legacy path's stages, and of a stage's key topics
StageIndexes(path) == 0 .. Len(path.stages) - 1
TopicIndexes(path, st) == 0 .. path.stages[st + 1].keyTopics - 1

\* the key topic's button of the legacy view: disabled={isUpdatingThis}
TopicToggleEnabled(v, stageIndex, topicIndex) ==
    v.updating # <<stageIndex, "topic", topicIndex>>

\* a handler that is not running
FreeCall == [pc |-> "free"]

\* no toggle handler waits for its response
NoCall == \A c \in DOMAIN view.calls : view.calls[c].pc = "free"

\* the view as it mounts on the path of currentSavedPath: useState(progressMap),
\* useState(null); the App holds completedTopics of currentSavedPath
Mounted(pid, path, progressMap, completedTopics, calls, fetches) ==
    [pc |-> "mounted", pathId |-> pid, path |-> path,
     localProgress |-> progressMap, updating |-> NoKey,
     completedTopics |-> completedTopics,
     calls |-> calls, fetches |-> fetches]

\* the slot of the server in which fetch f arrives: the slots of the toggle
\* handlers come first
FetchSlot(f) == Len(view.calls) + f

\* App 721-725: handleContinuePath(pathId) runs up to its await and sends
\* GET /api/paths/:id, whatever the App shows and whatever is under way,
\* while one of the fetches of the model is free
ContinuePath(pid) ==
    /\ \E f \in DOMAIN view.fetches :
          /\ view.fetches[f].pc = "free"
          /\ \A g \in DOMAIN view.fetches : g < f => view.fetches[g].pc # "free"
          /\ view' = [view EXCEPT !.fetches[f] = [pc |-> "sent", pathId |-> pid]]
    /\ UNCHANGED <<paths, progress, achievements, now, last, reqs, gen>>

\* fetch f arrives at the server
ServeFetch(user, f) ==
    /\ view.fetches[f].pc = "sent"
    /\ GetArrival(FetchSlot(f), user, view.fetches[f].pathId)
    /\ view' = [view EXCEPT !.fetches[f].pc = "serving"]

\* App 725-735: handleContinuePath runs on after its await.  With a 200
\* response: setCurrentSavedPath(pathData) and mode SAVED_PATH.  A view
\* that is on screen stays, with its localProgress and updating, and gets
\* the new path as its props; otherwise the view mounts on the response.
\* With another response the error is shown
Mount(f) ==
    /\ view.fetches[f].pc = "serving"
    /\ reqs[FetchSlot(f)].pc = "done"
    /\ LET q == reqs[FetchSlot(f)]
           fetches == [view.fetches EXCEPT ![f] = NoFetch]
       IN  IF q.code # 200
           THEN view' = [view EXCEPT !.fetches = fetches]
           ELSE IF view.pc = "mounted"
           THEN view' = [view EXCEPT !.pathId = q.pid, !.path = q.pathData,
                                     !.completedTopics = q.completed_topics,
                                     !.fetches = fetches]
           ELSE view' = Mounted(q.pid, q.pathData, q.progressMap,
                                q.completed_topics, view.calls, fetches)
    /\ UNCHANGED <<paths, progress, achievements, now, last, reqs, gen>>

\* App 791-806: handleModeSelect(mode) of a navigation button:
\* setCurrentSavedPath(null), and a view on screen unmounts.  The handlers
\* that wait for their response are those of a view that is gone
Unmount ==
    /\ view' = Unmounted([c \in DOMAIN view.calls |->
                             IF view.calls[c].pc = "free" THEN FreeCall
                             ELSE [view.calls[c] EXCEPT !.live = FALSE]],
                         view.fetches)
    /\ UNCHANGED <<paths, progress, achievements, now, last, reqs, gen>>

\* a toggle handler runs up to its await: it reads currentlyCompleted, sets
\* updating and sends the request
Click(key, currentlyCompleted, request) ==
    /\ \E c \in DOMAIN view.calls :
          /\ view.calls[c].pc = "free"
          /\ \A q \in DOMAIN view.calls : q < c => view.calls[q].pc # "free"
          /\ view' = [view EXCEPT
                        !.updating = key,
                        !.calls[c] = [pc |-> "sent", pathId |-> view.pathId,
                                      key |-> key,
                                      currentlyCompleted |-> currentlyCompleted,
                                      request |-> request, live |-> TRUE]]
    /\ UNCHANGED <<paths, progress, achievements, now, last, reqs, gen>>

\* onClick of a key topic of the legacy view
ClickTopic(stageIndex, topicIndex) ==
    /\ view.pc = "mounted" /\ ~isLearningPath(view.path)
    /\ TopicToggleEnabled(view, stageIndex, topicIndex)
    /\ Click(<<stageIndex, "topic", topicIndex>>,
             isItemCompleted(view.localProgress, stageIndex, "topic", topicIndex),
             handleToggleProgress(stageIndex, "topic", topicIndex))

\* onClick of a stage's project of the legacy view
ClickStageProject(stageIndex) ==
    /\ view.pc = "mounted" /\ ~isLearningPath(view.path)
    /\ Click(<<stageIndex, "project", 0>>,
             isItemCompleted(view.localProgress, stageIndex, "project", 0),
             handleToggleProgress(stageIndex, "project", 0))

\* the request of call c arrives at the server, in slot c
Serve(user, c) ==
    /\ view.calls[c].pc = "sent"
    /\ LET k == view.calls[c]
       IN  Arrival(c, user, k.pathId, k.request[1], k.request[2],
                   k.request[3], ~k.currentlyCompleted, NoNotes)
    /\ view' = [view EXCEPT !.calls[c].pc = "serving"]

\* the handler of call c runs on after its await.  With a 200 response:
\* setLocalProgress, onProgressUpdate (handleProgressUpdate of the App, which
\* updates currentSavedPath unless it is null); with another response, the
\* catch block; then finally setUpdating(null).  setLocalProgress and
\* setUpdating do nothing for a view that is gone
Deliver(c) ==
    /\ view.calls[c].pc = "serving"
    /\ reqs[c].pc = "done"
    /\ LET k == view.calls[c]
           ok == reqs[c].code = 200
       IN  view' = [view EXCEPT
                      !.localProgress =
                          IF ok /\ k.live
                          THEN setLocalProgress(@, k.key, k.currentlyCompleted) ELSE @,
                      !.completedTopics =
                          IF ok /\ view.pc = "mounted"
                          THEN reqs[c].completed_topics ELSE @,
                      !.updating = IF k.live THEN NoKey ELSE @,
                      !.calls[c] = FreeCall]
    /\ UNCHANGED <<paths, progress, achievements, now, last, reqs, gen>>
(***************************************************************************)
(* Inputs.                                                                 *)
(***************************************************************************)
\* the users of SpecRead and SpecSave, and the one user of Spec and SpecStore
Users == {1, 2}

StoreUsers == {1}

Stage(n) == [stageName |-> TRUE, keyTopics |-> n]

Legacy(stages) == [isNew |-> FALSE, stages |-> stages, units |-> <<>>]

NewFormat(units) == [isNew |-> TRUE, stages |-> <<>>, units |-> units]

\* topics a save request of Spec carries: "ab" and " ab" are both stored as
\* "ab"; "a" is too short.  <<97, 98>> is "ab", 32 is the space
TopicInputs == { <<97, 98>>, <<32, 97, 98>>, <<97>> }

\* payloads a save request of Spec carries: a stage with one key topic, a
\* new-format tree, an empty array
Payloads == { Legacy(<<Stage(1)>>), NewFormat(<< <<1>> >>), Legacy(<<>>) }

\* items a toggle request of Spec addresses, <<stageIndex, itemType,
\* itemIndex>>: the topic and the stage of stage 0, and two items the
\* validation refuses
ToggleItems ==
    { <<0, "topic", 0>>, <<0, "stage", 0>>, <<-1, "topic", 0>>, <<0, "lesson", 0>> }

\* SpecStore: two topics, "ab" and "cd" (<<99, 100>>), of which "ab" also
\* comes behind a tab (9) and is stored as "ab"; a stage with one key topic,
\* and the toggle that completes its topic
StoreTopics == { <<97, 98>>, <<9, 97, 98>>, <<99, 100>> }

StorePayloads == { Legacy(<<Stage(1)>>) }

StoreItems == { <<0, "topic", 0>> }

StoreCompleted == {TRUE}

\* SpecConc: the toggles of the two topics of one path
ConcItems == { <<0, "topic", 0>>, <<0, "topic", 1>> }

\* no path is saved; one request is handled at a time
Init ==
    /\ paths = <<>>
    /\ progress = {}
    /\ achievements = EmptyBag
    /\ now = 1
    /\ last = NoAnswer
    /\ reqs = <<IdleReq>>
    /\ gen = NoGen
    /\ view = NoView

\* the Progress Tracker: one user, one topic, the requests one after the
\* other
Next ==
    \/ \E r \in ReqIds, u \in StoreUsers, t \in TopicInputs, d \in Payloads :
            SaveRequest(r, u, t, d, FALSE)
    \/ \E r \in ReqIds : SaveCheck(r)
    \/ \E r \in ReqIds : SaveInsert(r, MaxPaths)
    \/ \E r \in ReqIds, u \in StoreUsers, p \in 1..MaxPaths, i \in ToggleItems, ic \in BOOLEAN :
            Arrive(r, u, p, i[1], i[2], i[3], ic, NoNotes)
    \/ \E r \in ReqIds : ReadPath(r)
    \/ \E r \in ReqIds : UpsertStep(r)
    \/ \E r \in ReqIds : RecountStep(r)
    \/ \E r \in ReqIds : UpdateStep(r)
    \/ \E r \in ReqIds : InfoStep(r)
    \/ \E r \in ReqIds : ExistsStep(r)
    \/ \E r \in ReqIds : InsertStep(r, MaxAchievements)
    \/ \E r \in ReqIds : FirstStep(r)
    \/ \E r \in ReqIds : FirstInsertStep(r, MaxAchievements)
    \/ \E r \in ReqIds : MilestoneCountStep(r)
    \/ \E u \in StoreUsers, p \in 1..MaxPaths : Quiet /\ Archive(u, p)
    \/ \E r \in ReqIds, u \in StoreUsers, p \in 1..MaxPaths : RestartRead(r, u, p)
    \/ \E r \in ReqIds : RestartDelete(r)
    \/ \E r \in ReqIds : RestartReset(r)

Spec == Init /\ [][Next]_vars

\* the Path Store: one user, two topics, several paths per topic, the
\* requests one after the other
NextStore ==
    \/ \E r \in ReqIds, u \in StoreUsers, t \in StoreTopics, d \in StorePayloads,
          rep \in BOOLEAN :
            SaveRequest(r, u, t, d, rep)
    \/ \E r \in ReqIds : SaveCheck(r)
    \/ \E r \in ReqIds : SaveInsert(r, MaxStorePaths)
    \/ \E r \in ReqIds, u \in StoreUsers, p \in 1..MaxStorePaths, i \in StoreItems,
          ic \in StoreCompleted :
            Arrive(r, u, p, i[1], i[2], i[3], ic, NoNotes)
    \/ \E r \in ReqIds : ReadPath(r)
    \/ \E r \in ReqIds : UpsertStep(r)
    \/ \E r \in ReqIds : RecountStep(r)
    \/ \E r \in ReqIds : UpdateStep(r)
    \/ \E r \in ReqIds : InfoStep(r)
    \/ \E r \in ReqIds : ExistsStep(r)
    \/ \E r \in ReqIds : InsertStep(r, MaxAchievements)
    \/ \E r \in ReqIds : FirstStep(r)
    \/ \E r \in ReqIds : FirstInsertStep(r, MaxAchievements)
    \/ \E r \in ReqIds : MilestoneCountStep(r)
    \/ \E u \in StoreUsers, p \in 1..MaxStorePaths : Quiet /\ Archive(u, p)
    \/ \E r \in ReqIds, u \in StoreUsers, p \in 1..MaxStorePaths : RestartRead(r, u, p)
    \/ \E r \in ReqIds : RestartDelete(r)
    \/ \E r \in ReqIds : RestartReset(r)

SpecStore == Init /\ [][NextStore]_vars

\* a path of user 1 just saved, of topic "ab"
SavedPath(pathData, totals) == NewPathRow(1, <<97, 98>>, pathData, totals, 1)

\* user 1 has saved a path of two key topics; MaxReqs requests can be in
\* flight together
InitConc ==
    /\ paths = << SavedPath(Legacy(<<Stage(2)>>),
                            calculatePathTotals(Legacy(<<Stage(2)>>))) >>
    /\ progress = {}
    /\ achievements = EmptyBag
    /\ now = 1
    /\ last = Answer("save", 1, 1, 201)
    /\ reqs = [r \in 1..MaxReqs |-> IdleReq]
    /\ gen = NoGen
    /\ view = NoView

\* toggle requests of user 1 on that path, in flight together
NextConc ==
    \/ \E r \in ReqIds, i \in ConcItems, ic \in BOOLEAN :
            Arrive(r, 1, 1, i[1], i[2], i[3], ic, NoNotes)
    \/ \E r \in ReqIds : ReadPath(r)
    \/ \E r \in ReqIds : UpsertStep(r)
    \/ \E r \in ReqIds : RecountStep(r)
    \/ \E r \in ReqIds : UpdateStep(r)
    \/ \E r \in ReqIds : InfoStep(r)
    \/ \E r \in ReqIds : ExistsStep(r)
    \/ \E r \in ReqIds : InsertStep(r, MaxAchievements)
    \/ \E r \in ReqIds : FirstStep(r)
    \/ \E r \in ReqIds : FirstInsertStep(r, MaxAchievements)
    \/ \E r \in ReqIds : MilestoneCountStep(r)

SpecConc == InitConc /\ [][NextConc]_vars

\* the readers: user 1 saves paths of one topic and one payload; users 1 and 2
\* address them, and ids that no path has
ReadTopics == { <<97, 98>> }

ReadItems == { <<0, "topic", 0>> }

\* the ids the requests of SpecRead address: those of the paths, and one that
\* no path has
ReadIds == 1 .. (MaxPaths + 1)

NextRead ==
    \/ \E r \in ReqIds, u \in StoreUsers, t \in ReadTopics, d \in StorePayloads :
            SaveRequest(r, u, t, d, FALSE)
    \/ \E r \in ReqIds : SaveCheck(r)
    \/ \E r \in ReqIds : SaveInsert(r, MaxPaths)
    \/ \E r \in ReqIds, u \in Users, p \in ReadIds, i \in ReadItems, ic \in BOOLEAN :
            Arrive(r, u, p, i[1], i[2], i[3], ic, NoNotes)
    \/ \E r \in ReqIds : ReadPath(r)
    \/ \E r \in ReqIds : UpsertStep(r)
    \/ \E r \in ReqIds : RecountStep(r)
    \/ \E r \in ReqIds : UpdateStep(r)
    \/ \E r \in ReqIds : InfoStep(r)
    \/ \E r \in ReqIds : ExistsStep(r)
    \/ \E r \in ReqIds : InsertStep(r, MaxAchievements)
    \/ \E r \in ReqIds : FirstStep(r)
    \/ \E r \in ReqIds : FirstInsertStep(r, MaxAchievements)
    \/ \E r \in ReqIds : MilestoneCountStep(r)
    \/ \E u \in Users, p \in ReadIds : Quiet /\ Archive(u, p)
    \/ \E r \in ReqIds, u \in Users, p \in ReadIds : RestartRead(r, u, p)
    \/ \E r \in ReqIds : RestartDelete(r)
    \/ \E r \in ReqIds : RestartReset(r)
    \/ \E r \in ReqIds, u \in Users, p \in ReadIds : GetRead(r, u, p)
    \/ \E r \in ReqIds : GetItems(r)
    \/ \E r \in ReqIds : GetTouch(r)
    \/ \E u \in Users : Quiet /\ List(u)

SpecRead == Init /\ [][NextRead]_vars

\* notes a toggle request carries: none, or a text
NoteInputs == { NoNotes, "n" }

\* user 1 has saved a path of two key topics; one request is handled at a
\* time
InitNotes ==
    /\ paths = << SavedPath(Legacy(<<Stage(2)>>),
                            calculatePathTotals(Legacy(<<Stage(2)>>))) >>
    /\ progress = {}
    /\ achievements = EmptyBag
    /\ now = 1
    /\ last = Answer("save", 1, 1, 201)
    /\ reqs = <<IdleReq>>
    /\ gen = NoGen
    /\ view = NoView

\* the toggles of user 1 on that path, with and without a note, and restarts
NextNotes ==
    \/ \E r \in ReqIds, i \in ConcItems, ic \in BOOLEAN, n \in NoteInputs :
            Arrive(r, 1, 1, i[1], i[2], i[3], ic, n)
    \/ \E r \in ReqIds : ReadPath(r)
    \/ \E r \in ReqIds : UpsertStep(r)
    \/ \E r \in ReqIds : RecountStep(r)
    \/ \E r \in ReqIds : UpdateStep(r)
    \/ \E r \in ReqIds : InfoStep(r)
    \/ \E r \in ReqIds : ExistsStep(r)
    \/ \E r \in ReqIds : InsertStep(r, MaxAchievements)
    \/ \E r \in ReqIds : FirstStep(r)
    \/ \E r \in ReqIds : FirstInsertStep(r, MaxAchievements)
    \/ \E r \in ReqIds : MilestoneCountStep(r)
    \/ \E r \in ReqIds : RestartRead(r, 1, 1)
    \/ \E r \in ReqIds : RestartDelete(r)
    \/ \E r \in ReqIds : RestartReset(r)

SpecNotes == InitNotes /\ [][NextNotes]_vars

\* the path the App of SpecKeys shows in its progress view: a legacy path of
\* one key topic
KeyPayloads == { Legacy(<<Stage(1)>>) }

\* path 1 of user 1 was just saved, a legacy path as POST /api/paths stores
\* it, and nothing of it is completed.  The App of user 1 shows no progress
\* view yet; at most maxCalls toggle handlers and maxFetches runs of
\* handleContinuePath wait for their response together.  The request of a
\* toggle handler arrives in the slot of its call, the fetch of a path in
\* the slot of its run, the requests of other clients in `others` slots more
InitView(payloads, maxCalls, maxFetches, others) ==
    /\ \E d \in payloads : paths = << SavedPath(d, calculatePathTotals(d)) >>
    /\ progress = {}
    /\ achievements = EmptyBag
    /\ now = 1
    /\ last = Answer("save", 1, 1, 201)
    /\ reqs = [r \in 1 .. maxCalls + maxFetches + others |-> IdleReq]
    /\ gen = NoGen
    /\ view = Unmounted([c \in 1 .. maxCalls |-> FreeCall],
                        [f \in 1 .. maxFetches |-> NoFetch])

\* the slot of the requests that come from no handler of the App
ApiSlot == Len(view.calls) + Len(view.fetches) + 1

\* the lessons whose toggle requests arrive in SpecKeys, <<unitIndex,
\* levelIndex, lessonIndex>>
LessonCoords == { <<0, 1, 0>>, <<1, 0, 1>> }

\* the user of SpecKeys awaits the response to a click before the next click
InitKeys == InitView(KeyPayloads, 1, 1, 1)

\* the App opens path 1, the view offers its clicks and the responses come
\* back; another client sends the requests that handleToggleLesson builds
\* to complete the lessons of LessonCoords, and requests of their stage and
\* item index with the item type 'lesson'; the server handles one request at
\* a time
NextKeys ==
    \/ ContinuePath(1)
    \/ \E f \in DOMAIN view.fetches : Quiet /\ ServeFetch(1, f)
    \/ \E r \in ReqIds : GetItems(r)
    \/ \E r \in ReqIds : GetTouch(r)
    \/ \E f \in DOMAIN view.fetches : Mount(f)
    \/ \E st \in StageIndexes(view.path) : \E t \in TopicIndexes(view.path, st) :
            ClickTopic(st, t)
    \/ \E c \in DOMAIN view.calls : Quiet /\ Serve(1, c)
    \/ \E k \in LessonCoords :
            /\ Quiet
            /\ LET request == handleToggleLesson(k[1], k[2], k[3])
               IN  Arrive(ApiSlot, 1, 1, request[1], request[2], request[3], TRUE, NoNotes)
    \/ \E k \in LessonCoords, ic \in BOOLEAN :
            /\ Quiet
            /\ Arrive(ApiSlot, 1, 1, k[1] * LevelSlots + k[2], "lesson", k[3], ic, NoNotes)
    \/ \E r \in ReqIds : ReadPath(r)
    \/ \E r \in ReqIds : UpsertStep(r)
    \/ \E r \in ReqIds : RecountStep(r)
    \/ \E r \in ReqIds : UpdateStep(r)
    \/ \E r \in ReqIds : InfoStep(r)
    \/ \E r \in ReqIds : ExistsStep(r)
    \/ \E r \in ReqIds : InsertStep(r, MaxAchievements)
    \/ \E r \in ReqIds : FirstStep(r)
    \/ \E r \in ReqIds : FirstInsertStep(r, MaxAchievements)
    \/ \E r \in ReqIds : MilestoneCountStep(r)
    \/ \E c \in DOMAIN view.calls : Deliver(c)

SpecKeys == InitKeys /\ [][NextKeys]_vars

\* the path the App of SpecReopen shows in its progress view: a legacy path
\* of one key topic
ReopenPayloads == { Legacy(<<Stage(1)>>) }

InitReopen == InitView(ReopenPayloads, 1, MaxFetches, 0)

\* the App opens path 1 at any time, also while an earlier fetch of it is
\* under way or the view is on screen; the user clicks in the view and
\* leaves it at any time; the server handles one request at a time
NextReopen ==
    \/ ContinuePath(1)
    \/ \E f \in DOMAIN view.fetches : Quiet /\ ServeFetch(1, f)
    \/ \E r \in ReqIds : GetItems(r)
    \/ \E r \in ReqIds : GetTouch(r)
    \/ \E f \in DOMAIN view.fetches : Mount(f)
    \/ Unmount
    \/ \E st \in StageIndexes(view.path) : \E t \in TopicIndexes(view.path, st) :
            ClickTopic(st, t)
    \/ \E st \in StageIndexes(view.path) : ClickStageProject(st)
    \/ \E c \in DOMAIN view.calls : Quiet /\ Serve(1, c)
    \/ \E r \in ReqIds : ReadPath(r)
    \/ \E r \in ReqIds : UpsertStep(r)
    \/ \E r \in ReqIds : RecountStep(r)
    \/ \E r \in ReqIds : UpdateStep(r)
    \/ \E r \in ReqIds : InfoStep(r)
    \/ \E r \in ReqIds : ExistsStep(r)
    \/ \E r \in ReqIds : InsertStep(r, MaxAchievements)
    \/ \E r \in ReqIds : FirstStep(r)
    \/ \E r \in ReqIds : FirstInsertStep(r, MaxAchievements)
    \/ \E r \in ReqIds : MilestoneCountStep(r)
    \/ \E c \in DOMAIN view.calls : Deliver(c)

SpecReopen == InitReopen /\ [][NextReopen]_vars

\* the path the App of SpecClient shows in its progress view
ClientPayloads == { Legacy(<<Stage(2)>>) }

\* the user of SpecClient does not await a response before the next click
InitClient == InitView(ClientPayloads, MaxCalls, 1, 0)

\* the user opens path 1 from the list of paths and stays in the view;
\* clicks on key topics, the server, the responses
NextClient ==
    \/ view.pc = "unmounted" /\ ContinuePath(1)
    \/ \E f \in DOMAIN view.fetches : ServeFetch(1, f)
    \/ \E r \in ReqIds : GetItems(r)
    \/ \E r \in ReqIds : GetTouch(r)
    \/ \E f \in DOMAIN view.fetches : Mount(f)
    \/ \E st \in StageIndexes(view.path) : \E t \in TopicIndexes(view.path, st) :
            ClickTopic(st, t)
    \/ \E c \in DOMAIN view.calls : Serve(1, c)
    \/ \E r \in ReqIds : ReadPath(r)
    \/ \E r \in ReqIds : UpsertStep(r)
    \/ \E r \in ReqIds : RecountStep(r)
    \/ \E r \in ReqIds : UpdateStep(r)
    \/ \E r \in ReqIds : InfoStep(r)
    \/ \E r \in ReqIds : ExistsStep(r)
    \/ \E r \in ReqIds : InsertStep(r, MaxAchievements)
    \/ \E r \in ReqIds : FirstStep(r)
    \/ \E r \in ReqIds : FirstInsertStep(r, MaxAchievements)
    \/ \E r \in ReqIds : MilestoneCountStep(r)
    \/ \E c \in DOMAIN view.calls : Deliver(c)

SpecClient == InitClient /\ [][NextClient]_vars

\* a path of one key topic that user 1 saved and completed, and one just saved
DonePath(topic) ==
    [NewPathRow(1, topic, Legacy(<<Stage(1)>>),
                calculatePathTotals(Legacy(<<Stage(1)>>)), 1)
        EXCEPT !.completed_topics = 1, !.status = "completed", !.completed_at = 1]

FreshPath(topic) ==
    NewPathRow(1, topic, Legacy(<<Stage(1)>>),
               calculatePathTotals(Legacy(<<Stage(1)>>)), 1)

\* user 1 has completed four paths, one after the other, and holds what
\* these completions awarded: a path_completion each and one first_path; two
\* more paths are saved
InitMilestone ==
    /\ now = 1
    /\ paths = << DonePath(<<97, 98>>), DonePath(<<97, 98>>),
                  DonePath(<<97, 98>>), DonePath(<<97, 98>>),
                  FreshPath(<<97, 98>>), FreshPath(<<99, 100>>) >>
    /\ progress = { ProgressRow(p, 1, 0, "topic", 0, TRUE, NoNotes, 1) : p \in 1..4 }
    /\ achievements =
          SetToBag({ AchievementRow(1, p, "path_completion") : p \in 1..4 }
                   \cup { AchievementRow(1, NullId, "first_path") })
    /\ last = Answer("save", 1, 6, 201)
    /\ reqs = <<IdleReq>>
    /\ gen = NoGen
    /\ view = NoView

\* toggles of the topic of the two paths just saved, and archiving, one
\* request after the other
NextMilestone ==
    \/ \E r \in ReqIds, p \in {5, 6}, ic \in BOOLEAN :
            Arrive(r, 1, p, 0, "topic", 0, ic, NoNotes)
    \/ \E r \in ReqIds : ReadPath(r)
    \/ \E r \in ReqIds : UpsertStep(r)
    \/ \E r \in ReqIds : RecountStep(r)
    \/ \E r \in ReqIds : UpdateStep(r)
    \/ \E r \in ReqIds : InfoStep(r)
    \/ \E r \in ReqIds : ExistsStep(r)
    \/ \E r \in ReqIds : InsertStep(r, MaxMilestoneAchievements)
    \/ \E r \in ReqIds : FirstStep(r)
    \/ \E r \in ReqIds : FirstInsertStep(r, MaxMilestoneAchievements)
    \/ \E r \in ReqIds : MilestoneCountStep(r)
    \/ \E r \in ReqIds : MilestoneCheckStep(r)
    \/ \E r \in ReqIds : MilestoneInsertStep(r, MaxMilestoneAchievements)
    \/ \E p \in 1..6 : Quiet /\ Archive(1, p)

SpecMilestone == InitMilestone /\ [][NextMilestone]_vars

\* the toggles of user 1 on the path of InitNotes, as time passes
NextClock ==
    \/ \E r \in ReqIds, i \in ConcItems, ic \in BOOLEAN :
            Arrive(r, 1, 1, i[1], i[2], i[3], ic, NoNotes)
    \/ \E r \in ReqIds : ReadPath(r)
    \/ \E r \in ReqIds : UpsertStep(r)
    \/ \E r \in ReqIds : RecountStep(r)
    \/ \E r \in ReqIds : UpdateStep(r)
    \/ \E r \in ReqIds : InfoStep(r)
    \/ \E r \in ReqIds : ExistsStep(r)
    \/ \E r \in ReqIds : InsertStep(r, MaxAchievements)
    \/ \E r \in ReqIds : FirstStep(r)
    \/ \E r \in ReqIds : FirstInsertStep(r, MaxAchievements)
    \/ \E r \in ReqIds : MilestoneCountStep(r)
    \/ Tick

SpecClock == InitNotes /\ [][NextClock]_vars

\* SpecItems: a stage of one key topic and a stage of none; the key topic,
\* a key topic the stage does not have, and the stage's project
ItemPayloads == { Legacy(<<Stage(1)>>), Legacy(<<Stage(0)>>) }

ItemItems == { <<0, "topic", 0>>, <<0, "topic", 1>>, <<0, "project", 0>> }

\* user 1 saves paths, toggles items of them and lists them, one request
\* after the other
NextItems ==
    \/ \E r \in ReqIds, d \in ItemPayloads : SaveRequest(r, 1, <<97, 98>>, d, FALSE)
    \/ \E r \in ReqIds : SaveCheck(r)
    \/ \E r \in ReqIds : SaveInsert(r, MaxPaths)
    \/ \E r \in ReqIds, p \in 1..MaxPaths, i \in ItemItems, ic \in BOOLEAN :
            Arrive(r, 1, p, i[1], i[2], i[3], ic, NoNotes)
    \/ \E r \in ReqIds : ReadPath(r)
    \/ \E r \in ReqIds : UpsertStep(r)
    \/ \E r \in ReqIds : RecountStep(r)
    \/ \E r \in ReqIds : UpdateStep(r)
    \/ \E r \in ReqIds : InfoStep(r)
    \/ \E r \in ReqIds : ExistsStep(r)
    \/ \E r \in ReqIds : InsertStep(r, MaxAchievements)
    \/ \E r \in ReqIds : FirstStep(r)
    \/ \E r \in ReqIds : FirstInsertStep(r, MaxAchievements)
    \/ \E r \in ReqIds : MilestoneCountStep(r)
    \/ Quiet /\ List(1)

SpecItems == Init /\ [][NextItems]_vars

\* no path is saved; MaxReqs requests can be in flight together
InitSave ==
    /\ paths = <<>>
    /\ progress = {}
    /\ achievements = EmptyBag
    /\ now = 1
    /\ last = NoAnswer
    /\ reqs = [r \in 1..MaxReqs |-> IdleReq]
    /\ gen = NoGen
    /\ view = NoView

\* save requests in flight together
NextSave ==
    \/ \E r \in ReqIds, u \in Users, t \in StoreTopics, d \in StorePayloads :
            SaveRequest(r, u, t, d, FALSE)
    \/ \E r \in ReqIds : SaveCheck(r)
    \/ \E r \in ReqIds : SaveInsert(r, MaxStorePaths)

SpecSave == InitSave /\ [][NextSave]_vars

\* a lesson of the outline
OutlineLesson(title, searchQuery) == [title |-> title, searchQuery |-> searchQuery]

\* the lessons "A", "B" and "C" without a searchQuery; "B" with the query
\* "e (U+00E9), space, U+4E2D"; "C" with the query U+1F600, a surrogate
\* pair; "A" with the query U+D83D, the first half of a pair alone
LessonA == OutlineLesson(<<65>>, <<>>)
LessonB == OutlineLesson(<<66>>, <<>>)
LessonC == OutlineLesson(<<67>>, <<>>)
LessonAccents == OutlineLesson(<<66>>, <<233, 32, 20013>>)
LessonPair == OutlineLesson(<<67>>, <<55357, 56832>>)
LessonLone == OutlineLesson(<<65>>, <<55357>>)

\* the topic of a generation request: "ab"
GenTopics == { <<97, 98>> }

\* outlines a provider returns: a level of three lessons; two units, the
\* first of two levels; a level of two lessons next to a level of none; a
\* level of two lessons of which the first has a query that is no
\* well-formed string
GenOutlines ==
    { << << <<LessonA, LessonAccents, LessonC>> >> >>,
      << << <<LessonA>>, <<LessonB>> >>, << <<LessonPair>> >> >>,
      << << <<LessonA, LessonB>>, <<>> >> >>,
      << << <<LessonLone, LessonB>> >> >> }

\* values of Math.floor(Math.random() * 6) a lesson draws: the least and the
\* greatest
RandomDraws == {0, XpSpread - 1}

\* what a lookup meets
LookupWorlds ==
    { LookupWorld(TRUE, "ok", "ok"), LookupWorld(FALSE, "ok", "ok"),
      LookupWorld(TRUE, "fail", "ok"), LookupWorld(TRUE, "empty", "ok"),
      LookupWorld(TRUE, "throws", "ok"), LookupWorld(TRUE, "ok", "fail"),
      LookupWorld(TRUE, "ok", "empty"), LookupWorld(TRUE, "ok", "throws") }

\* one generation request
NextGen ==
    \/ \E t \in GenTopics, o \in GenOutlines :
            \E d \in [LessonKeys(o) -> RandomDraws] : Generate(t, o, d)
    \/ \E o \in GenOutlines : \E k \in LessonKeys(o), w \in LookupWorlds :
            LookupSettles(k, w)
    \/ \E o \in GenOutlines : \E k \in LevelKeys(o) : AssembleLevel(k[1], k[2])
    \/ \E o \in GenOutlines : \E k \in UnitKeys(o) : AssembleUnit(k[1])
    \/ Respond

SpecGen == Init /\ [][NextGen]_vars
(***************************************************************************)
(* Properties.  A request is answered by the step that takes it to "done". *)
(***************************************************************************)
\* the progress records of path p that are completed topics
CompletedTopicRows(p) ==
    {r \in progress : r.path_id = p /\ r.item_type = "topic" /\ r.is_completed = 1}

\* the response sent last is that of a toggle, and no request is in flight
ToggleAnswered == Quiet /\ last.op = "toggle" /\ last.code = 200

\* request r is in flight
InFlight(r) == reqs[r].pc \notin {"idle", "done"}

\* the step answers request r
Answered(r) == InFlight(r) /\ reqs'[r].pc = "done"

\* C1: after every toggle in a sequence of toggles and restarts executed one
\* after the other, the persisted completed_topics of every path equals the
\* number of its progress records with item_type = 'topic' and is_completed
\* set.
C1_RecountCorrect ==
    ToggleAnswered =>
        \A p \in PathIds :
            paths[p].completed_topics = Cardinality(CompletedTopicRows(p))

\* a toggle has just counted one completed topic next to a completed stage
\* record of the same path
C1_Witness ==
    /\ ToggleAnswered
    /\ paths[last.pathId].completed_topics = 1
    /\ \E r \in progress :
          r.path_id = last.pathId /\ r.item_type = "stage" /\ r.is_completed = 1

AllDone == reqs # <<>> /\ \A r \in ReqIds : reqs[r].pc = "done"

\* C2: for every interleaving of the steps of concurrent toggle requests on
\* one path, once all requests have finished the persisted completed_topics
\* equals the number of the path's progress records with item_type = 'topic'
\* and is_completed set.
C2_RecountCorrectWhenDone ==
    AllDone =>
        \A p \in PathIds :
            paths[p].completed_topics = Cardinality(CompletedTopicRows(p))

\* the achievements of user u of type t for path p
AchievementCount(u, p, t) ==
    CountRows(achievements,
              LAMBDA r : r.user_id = u /\ r.path_id = p /\ r.type = t)

\* C3: in every state reached by toggles, restarts and archives executed one
\* after the other (completing a path, restarting it and completing it again
\* included) there is at most one path_completion achievement per (user,
\* path).
C3_OnePathCompletion ==
    \A u \in StoreUsers : \A p \in PathIds :
        AchievementCount(u, p, "path_completion") <= 1

\* a path was completed a second time: the toggle was a completion transition
\* that returned achievements, none of them the path_completion the user
\* already holds for the path
C3_Witness ==
    /\ ToggleAnswered
    /\ last.isFullyCompleted
    /\ last.newAchievements # <<>>
    /\ \A i \in 1..Len(last.newAchievements) :
          last.newAchievements[i] # "path_completion"
    /\ AchievementCount(last.user, last.pathId, "path_completion") = 1

\* the achievements of user u of type t
TypeCount(u, t) ==
    CountRows(achievements, LAMBDA r : r.user_id = u /\ r.type = t)

\* C4: in every state reached by saves, toggles, restarts and archives a user
\* holds at most one first_path achievement and at most one achievement of
\* each milestone type.
C4_OnePerType ==
    \A u \in StoreUsers :
        /\ TypeCount(u, "first_path") <= 1
        /\ \A i \in 1..Len(Milestones) : TypeCount(u, Milestones[i].type) <= 1

\* C5: once a path's status is 'completed', the path update of a toggle
\* leaves it 'completed', and only the reset of a restart of that path makes
\* it 'active' again.
C5_MonotonicCompletion ==
    [][\A p \in PathIds :
          paths[p].status = "completed" =>
              /\ \A r \in ReqIds : UpdateStep(r) => paths'[p].status = "completed"
              /\ paths'[p].status = "active" =>
                    \E r \in ReqIds : RestartReset(r) /\ reqs[r].pid = p]_vars

\* a toggle un-completed the last completed topic of a completed path
C5_Witness ==
    /\ ToggleAnswered
    /\ paths[last.pathId].status = "completed"
    /\ last.completedTopics = 0
    /\ paths[last.pathId].total_topics > 0

\* C6 as claimed: after every toggle the path's status is 'completed' if and
\* only if the completed_topics the toggle computed is at least total_topics.
C6_StatusIffComplete ==
    ToggleAnswered =>
        (paths[last.pathId].status = "completed"
            <=> last.completedTopics >= paths[last.pathId].total_topics)

\* C6 amended: the path update of a toggle leaves the status 'completed' if
\* and only if the completed_topics the toggle computed is at least
\* total_topics or the status was 'completed' before; it changes a status to
\* 'completed' or not at all.
C6_StatusIffCompleteOrWas ==
    [][\A r \in ReqIds :
          UpdateStep(r) =>
              LET p == reqs[r].pid
              IN  /\ paths'[p].status = "completed"
                        <=> \/ reqs[r].completed_topics >= paths[p].total_topics
                            \/ paths[p].status = "completed"
                  /\ paths'[p].status \in {paths[p].status, "completed"}]_vars

\* a toggle computed fewer completed topics than total_topics on a path that
\* stays 'completed'
C6_Witness ==
    /\ ToggleAnswered
    /\ paths[last.pathId].status = "completed"
    /\ last.completedTopics < paths[last.pathId].total_topics
    /\ ~last.isFullyCompleted

\* C7: a toggle inserts achievements, and returns a non-empty newAchievements,
\* only in a completion transition (the recomputed completed_topics reaches
\* total_topics and the stored status was not 'completed'); a toggle on a path
\* whose status is 'completed' returns none and inserts none.
C7_AwardOnlyOnTransition ==
    [][\A r \in ReqIds :
          (InFlight(r) /\ reqs[r].op = "toggle") =>
              LET awarded == \/ achievements' # achievements
                             \/ Answered(r) /\ last'.newAchievements # <<>>
              IN  /\ awarded =>
                        /\ reqs[r].completed_topics >= reqs[r].total_topics
                        /\ reqs[r].status # "completed"
                  /\ reqs[r].status = "completed" => ~awarded]_vars

\* a toggle found a path fully completed whose status already was
\* 'completed', and returned no achievement
C7_Witness ==
    /\ ToggleAnswered
    /\ last.isFullyCompleted
    /\ last.newAchievements = <<>>
    /\ AchievementCount(last.user, last.pathId, "path_completion") = 1
    /\ \E r \in progress :
          r.path_id = last.pathId /\ r.item_type = "stage" /\ r.is_completed = 1

\* the active paths of user u whose topic is t
ActivePaths(u, t) ==
    {p \in PathIds : paths[p].user_id = u /\ paths[p].topic = t
                       /\ paths[p].status = "active"}

\* the completed paths of user u whose topic is t
CompletedPaths(u, t) ==
    {p \in PathIds : paths[p].user_id = u /\ paths[p].topic = t
                       /\ paths[p].status = "completed"}

\* the step inserts the path of save request r and answers 201 with its id
Inserted(r) ==
    /\ Answered(r)
    /\ last'.op = "save" /\ last'.code = 201
    /\ last'.pathId = Len(paths) + 1
    /\ Len(paths') = Len(paths) + 1

\* C8: a save for a topic of which the user has an active path fails with
\* Conflict carrying that path's id and inserts nothing; once no path of the
\* topic is active any more (the existing one was archived), the save succeeds
\* and returns a new path id.
C8_ConflictWhileActive ==
    [][\A r \in ReqIds :
          /\ SaveCheck(r) =>
                IF ActivePaths(reqs[r].user, reqs[r].topic) # {}
                THEN /\ Answered(r)
                     /\ last'.code = 409
                     /\ last'.existingPathId \in ActivePaths(reqs[r].user, reqs[r].topic)
                     /\ paths' = paths
                ELSE reqs'[r].pc = "store"
          /\ SaveInsert(r, MaxStorePaths) => Inserted(r)]_vars

\* C9: a save is rejected with Conflict whenever the user has a
\* path of the same topic whose status is 'active' or 'completed'.
C9_ConflictUnlessArchived ==
    [][\A r \in ReqIds :
          (/\ SaveCheck(r)
           /\ ActivePaths(reqs[r].user, reqs[r].topic)
                 \cup CompletedPaths(reqs[r].user, reqs[r].topic) # {})
              => Answered(r) /\ last'.code = 409]_vars

\* C10: in every state reached by saves, toggles, archives and restarts
\* executed one after the other a user has at most one active path per topic.
C10_OneActivePerTopic ==
    \A p \in PathIds : \A q \in PathIds :
        (/\ paths[p].user_id = paths[q].user_id
         /\ paths[p].topic = paths[q].topic
         /\ paths[p].status = "active"
         /\ paths[q].status = "active") => p = q

\* C11: a save request carrying the replace flag, issued while the user has an
\* active path for the topic, archives that path and inserts the new one, and
\* answers with the new path's id instead of Conflict.
C11_ReplaceArchivesThenInserts ==
    [][\A r \in ReqIds :
          /\ (/\ SaveCheck(r)
              /\ reqs[r].replace
              /\ ActivePaths(reqs[r].user, reqs[r].topic) # {})
                => /\ reqs'[r].pc = "store"
                   /\ \A p \in ActivePaths(reqs[r].user, reqs[r].topic) :
                         paths'[p].status = "archived"
          /\ (SaveInsert(r, MaxStorePaths) /\ reqs[r].replace) => Inserted(r)]_vars

\* the progress record of path p under the key of item i
RecordsAt(prog, p, i) ==
    {r \in prog : r.path_id = p /\ r.stage_index = i[1]
                      /\ r.item_type = i[2] /\ r.item_index = i[3]}

\* the key a toggle request addresses
RequestKey(q) == <<q.stageIndex, q.itemType, q.itemIndex>>

\* C12: a toggle request that supplies no note leaves the note of the
\* progress record it addresses as it was.
C12_AbsentNoteKeepsNote ==
    [][\A r \in ReqIds :
          (UpsertStep(r) /\ reqs[r].notes = NoNotes) =>
              \A old \in RecordsAt(progress, reqs[r].pid, RequestKey(reqs[r])) :
                  \A new \in RecordsAt(progress', reqs[r].pid, RequestKey(reqs[r])) :
                      new.notes = old.notes]_vars

\* user u owns a path of id p
Owns(u, p) == p \in PathIds /\ paths[p].user_id = u

\* the step answers not-found and leaves the tables as they were
NotFound ==
    /\ last'.code = 404
    /\ last'.op \in {"get", "archive", "restart", "toggle"}
    /\ UNCHANGED <<paths, progress, achievements>>

\* C13: get, toggle, archive and restart of a path id that no path has, or
\* that a path of another user has, answer not-found and leave every path,
\* progress record and achievement as it was.
C13_NotFoundUnlessOwned ==
    [][/\ \A r \in ReqIds, u \in Users, p \in ReadIds :
             ~Owns(u, p) =>
                 /\ (GetRead(r, u, p) \/ RestartRead(r, u, p)) =>
                       NotFound /\ reqs'[r].pc = "done"
                 /\ Archive(u, p) => NotFound
                 /\ \A i \in ReadItems, ic \in BOOLEAN :
                       Arrive(r, u, p, i[1], i[2], i[3], ic, NoNotes) =>
                           UNCHANGED <<paths, progress, achievements>>
       /\ \A r \in ReqIds :
             (ReadPath(r) /\ ~Owns(reqs[r].user, reqs[r].pid)) =>
                 NotFound /\ reqs'[r].pc = "done"]_vars

\* a restart was answered not-found that addressed the path of another user,
\* a path with progress
C13_Witness ==
    \E r \in ReqIds :
        /\ reqs[r].pc = "done"
        /\ reqs[r].op = "restart"
        /\ reqs[r].code = 404
        /\ last.op = "restart"
        /\ reqs[r].pid \in PathIds
        /\ paths[reqs[r].pid].user_id # reqs[r].user
        /\ \E row \in progress : row.path_id = reqs[r].pid

\* C14: after the restart of an owned path the path has no progress records,
\* its completed_topics and completed_stages are 0, its status is 'active' and
\* its completed_at is null, while its payload, total_topics and total_stages
\* and the achievements are as before.
C14_RestartResets ==
    [][\A r \in ReqIds :
          /\ \A u \in StoreUsers, p \in 1..MaxPaths :
                (RestartRead(r, u, p) /\ Owns(u, p)) =>
                    reqs'[r].pc = "delete" /\ reqs'[r].pid = p
          /\ RestartDelete(r) =>
                /\ \A row \in progress' : row.path_id # reqs[r].pid
                /\ UNCHANGED <<paths, achievements>>
          /\ RestartReset(r) =>
                LET p == reqs[r].pid
                IN  /\ Answered(r)
                    /\ last'.code = 200
                    /\ \A row \in progress' : row.path_id # p
                    /\ paths'[p].completed_topics = 0
                    /\ paths'[p].completed_stages = 0
                    /\ paths'[p].status = "active"
                    /\ paths'[p].completed_at = NullTime
                    /\ paths'[p].path_data = paths[p].path_data
                    /\ paths'[p].total_topics = paths[p].total_topics
                    /\ paths'[p].total_stages = paths[p].total_stages
                    /\ paths'[p].topic = paths[p].topic
                    /\ achievements' = achievements]_vars

\* a path that was completed, and earned its achievements, has been restarted
C14_Witness ==
    /\ Quiet
    /\ last.op = "restart"
    /\ last.code = 200
    /\ paths[last.pathId].status = "active"
    /\ paths[last.pathId].completed_at = NullTime
    /\ AchievementCount(last.user, last.pathId, "path_completion") = 1
    /\ \A r \in progress : r.path_id # last.pathId

\* C15: once a path is archived it stays fetchable by id for its owner, and no
\* later get, toggle, restart or save makes it appear in the owner's path list
\* again: its status stays 'archived'.
C15_ArchivedStaysArchived ==
    [][\A p \in PathIds :
          paths[p].status = "archived" =>
              /\ paths'[p].status = "archived"
              /\ p \notin ListPaths(paths', paths[p].user_id)
              /\ \A r \in ReqIds :
                    GetRead(r, paths[p].user_id, p) => reqs'[r].pc = "items"]_vars

Generated == last.op = "generate" /\ last.code = 200

\* C16: for every order in which the lookups of a generation complete, the
\* returned path lists units, levels and lessons in the order of the outline,
\* and lesson k of level j of unit i has the id u(i+1)-l(j+1)-s(k+1).
C16_OutlineOrderKept ==
    Generated =>
        LET o == gen.outline
            units == last.path.units
        IN  /\ Len(units) = Len(o)
            /\ \A u \in 1..Len(o) :
                  /\ units[u].id = <<"u", u>>
                  /\ Len(units[u].levels) = Len(o[u])
                  /\ \A l \in 1..Len(o[u]) :
                        LET level == units[u].levels[l]
                        IN  /\ level.id = <<"u", u, "l", l>>
                            /\ Len(level.lessons) = Len(o[u][l])
                            /\ \A n \in 1..Len(o[u][l]) :
                                  /\ level.lessons[n].title = o[u][l][n].title
                                  /\ level.lessons[n].id = <<"u", u, "l", l, "s", n>>

\* the path of the outline [A, B, C] was returned after the lookup of C
\* completed first and that of A last
C16_Witness ==
    /\ Generated
    /\ gen.outline = << << <<LessonA, LessonAccents, LessonC>> >> >>
    /\ SubSeq(gen.order, 1, 3) = << <<0, 0, 2>>, <<0, 0, 1>>, <<0, 0, 0>> >>

\* a lookup in world w fails or finds nothing
LookupFails(w) == ~(w.apiKey /\ w.search = "ok" /\ w.videos = "ok")

IsPlaceholder(resource) ==
    /\ resource.viewCount = 0
    /\ resource.durationMin = 0
    /\ resource.videoId = ""
    /\ resource.url # <<>>

\* the lessons of a returned path
PathLessons(path) ==
    UNION {UNION {{path.units[u].levels[l].lessons[n] :
                      n \in 1..Len(path.units[u].levels[l].lessons)} :
                   l \in 1..Len(path.units[u].levels)} :
            u \in 1..Len(path.units)}

\* C17: a lookup that fails or finds nothing does not throw, and its lesson
\* gets a placeholder resource (viewCount 0, durationMin 0, no video id, a
\* non-empty search URL); the path is returned once all lookups have
\* finished, and is complete: it has every lesson of the outline, each with
\* its video or the placeholder.
C17_FailedLookupDegrades ==
    [][/\ \A o \in GenOutlines : \A k \in LessonKeys(o), w \in LookupWorlds :
             (LookupSettles(k, w) /\ LookupFails(w)) =>
                 /\ gen'.pc = "lookups"
                 /\ IsPlaceholder(gen'.results[k].resource)
       /\ Respond =>
             /\ \A k \in LessonKeys(gen.outline) : InDomain(k, gen.results)
             /\ \A k \in LessonKeys(gen.outline) :
                   /\ gen.results[k] \in PathLessons(last'.path)
                   /\ gen.results[k].resource.found
                          \/ IsPlaceholder(gen.results[k].resource)
             /\ Cardinality(PathLessons(last'.path)) =
                    Cardinality(LessonKeys(gen.outline))]_vars

\* the sum of f over 1..n
SumTo(n, f(_)) == SumOver(1..n, [i \in 1..n |-> f(i)])

\* C18: in the returned path totalUnits, totalLevels and totalLessons are the
\* numbers of its units, levels and lessons, every xpReward is between 10 and
\* 15, each level's totalXp is the sum of its lessons' xpReward, and the
\* path's totalXp is the sum of all lessons' xpReward.
C18_RollupsAreAggregates ==
    Generated =>
        LET path == last.path
            Levels(u) == path.units[u].levels
            Lessons(u, l) == Levels(u)[l].lessons
            LevelXp(u, l) ==
                SumTo(Len(Lessons(u, l)), LAMBDA n : Lessons(u, l)[n].xpReward)
            UnitXp(u) == SumTo(Len(Levels(u)), LAMBDA l : LevelXp(u, l))
            UnitLessons(u) ==
                SumTo(Len(Levels(u)), LAMBDA l : Len(Lessons(u, l)))
        IN  /\ path.totalUnits = Len(path.units)
            /\ path.totalLevels = SumTo(Len(path.units), LAMBDA u : Len(Levels(u)))
            /\ path.totalLessons = SumTo(Len(path.units), UnitLessons)
            /\ path.totalXp = SumTo(Len(path.units), UnitXp)
            /\ \A u \in 1..Len(path.units) : \A l \in 1..Len(Levels(u)) :
                  /\ Levels(u)[l].totalXp = LevelXp(u, l)
                  /\ \A n \in 1..Len(Lessons(u, l)) :
                        Lessons(u, l)[n].xpReward \in 10..15

\* a path of two units was returned whose three lessons drew 10, 15 and 15
C18_Witness ==
    /\ Generated
    /\ last.path.totalUnits = 2
    /\ last.path.totalLessons = 3
    /\ last.path.totalXp = 40
    /\ last.path.units[1].levels[1].totalXp = 10

\* the leaf items of a payload: the key topics of a legacy stage array, the
\* lessons of a new-format tree
LeafItems(d) ==
    IF d.isNew
    THEN SumTo(Len(d.units),
               LAMBDA u : SumTo(Len(d.units[u]), LAMBDA l : d.units[u][l]))
    ELSE SumTo(Len(d.stages), LAMBDA n : d.stages[n].keyTopics)
\* C19: for every payload that validatePathData accepts, legacy or new
\* format, a save that meets no active path of the topic succeeds and
\* persists total_topics equal to the number of leaf items of the payload.
C19_SaveCountsLeafItems ==
    [][\A r \in ReqIds :
          /\ \A u \in StoreUsers, t \in TopicInputs, d \in Payloads :
                (SaveRequest(r, u, t, d, FALSE) /\ validatePathData(t, d) # "invalid") =>
                    /\ reqs'[r].pc = "existing"
                    /\ reqs'[r].totals.totalTopics = LeafItems(d)
          /\ (SaveCheck(r) /\ ActivePaths(reqs[r].user, reqs[r].topic) = {}) =>
                reqs'[r].pc = "store"
          /\ SaveInsert(r, MaxPaths) =>
                /\ Inserted(r)
                /\ paths'[Len(paths')].total_topics = LeafItems(reqs[r].pathData)]_vars

\* a click starts a handler that sends `request`
Sends(request) ==
    \E c \in DOMAIN view.calls :
        /\ view.calls[c].pc = "free"
        /\ view'.calls[c].pc = "sent"
        /\ view'.calls[c].request = request

\* a click on the item the view holds under `key` starts a handler that
\* sends `request`, to set the item to the opposite of what the view holds
SendsToggle(key, request) ==
    \E c \in DOMAIN view.calls :
        /\ view.calls[c].pc = "free"
        /\ view'.calls[c].pc = "sent"
        /\ view'.calls[c].request = request
        /\ view'.calls[c].currentlyCompleted = IsCompletedAt(view.localProgress, key)

\* a request <<stageIndex, 'lesson', itemIndex>> of another client arrives
LessonTypedArrives(stageIndex, itemIndex) ==
    \E ic \in BOOLEAN :
        Arrive(ApiSlot, 1, 1, stageIndex, "lesson", itemIndex, ic, NoNotes)

\* the request `request` of another client arrives, to complete its item
RequestArrives(request) ==
    Arrive(ApiSlot, 1, 1, request[1], request[2], request[3], TRUE, NoNotes)

\* C20 as claimed: a legacy topic toggle is recorded under the key
\* (stageIndex, 'topic', topicIndex) and a new-format lesson toggle under the
\* key (unitIndex * 100 + levelIndex, 'lesson', lessonIndex): the toggle
\* request of either key is accepted, and the progress record is written
\* under the key of the request.
C20_LessonKeyIsLesson ==
    [][/\ \A st \in StageIndexes(view.path) : \A t \in TopicIndexes(view.path, st) :
             ClickTopic(st, t) => Sends(<<st, "topic", t>>)
       /\ \A c \in DOMAIN view.calls :
             Serve(1, c) =>
                 /\ reqs'[c].pc = "read"
                 /\ RequestKey(reqs'[c]) = view.calls[c].request
       /\ \A k \in LessonCoords :
             LessonTypedArrives(k[1] * 100 + k[2], k[3]) =>
                 /\ reqs'[ApiSlot].pc = "read"
                 /\ RequestKey(reqs'[ApiSlot]) = <<k[1] * 100 + k[2], "lesson", k[3]>>
       /\ \A r \in ReqIds :
             UpsertStep(r) =>
                 RecordsAt(progress', reqs[r].pid, RequestKey(reqs[r])) # {}]_vars

\* C20 amended: a legacy topic toggle is recorded under the key (stageIndex,
\* 'topic', topicIndex), with the completion flag opposite to what the view
\* held at the click; the request handleToggleLesson builds for a lesson has
\* the key (unitIndex * 100 + levelIndex, 'topic', lessonIndex), and is
\* accepted and recorded under it; a request of item type 'lesson' is
\* answered 400 and writes nothing, so no record has the item type 'lesson'.
C20_LessonKeyIsTopic ==
    [][/\ \A st \in StageIndexes(view.path) : \A t \in TopicIndexes(view.path, st) :
             ClickTopic(st, t) => SendsToggle(<<st, "topic", t>>, <<st, "topic", t>>)
       /\ \A c \in DOMAIN view.calls :
             Serve(1, c) =>
                 /\ reqs'[c].pc = "read"
                 /\ RequestKey(reqs'[c]) = view.calls[c].request
                 /\ reqs'[c].isCompleted = ~view.calls[c].currentlyCompleted
       /\ \A k \in LessonCoords :
             /\ RequestArrives(handleToggleLesson(k[1], k[2], k[3])) =>
                   /\ reqs'[ApiSlot].pc = "read"
                   /\ RequestKey(reqs'[ApiSlot]) = <<k[1] * 100 + k[2], "topic", k[3]>>
             /\ LessonTypedArrives(k[1] * 100 + k[2], k[3]) =>
                   /\ reqs'[ApiSlot].pc = "done"
                   /\ last'.code = 400
                   /\ progress' = progress
       /\ \A r \in ReqIds :
             UpsertStep(r) =>
                 /\ RecordsAt(progress', reqs[r].pid, RequestKey(reqs[r])) # {}
                 /\ \A row \in RecordsAt(progress', reqs[r].pid, RequestKey(reqs[r])) :
                       row.is_completed = (IF reqs[r].isCompleted THEN 1 ELSE 0)
       /\ \A row \in progress' : row.item_type # "lesson"]_vars

\* the key topic has been clicked in the view and is recorded as complete, the
\* request handleToggleLesson builds for lesson 0 of level 1 of unit 0 and
\* the one for lesson 1 of unit 1 are recorded as complete, and a request of
\* item type 'lesson' has just been refused
C20_Witness ==
    /\ last.op = "toggle" /\ last.code = 400
    /\ view.pc = "mounted"
    /\ isItemCompleted(view.localProgress, 0, "topic", 0)
    /\ \E r \in RecordsAt(progress, 1, <<0, "topic", 0>>) : r.is_completed = 1
    /\ \E r \in RecordsAt(progress, 1, <<1, "topic", 0>>) : r.is_completed = 1
    /\ \E r \in RecordsAt(progress, 1, <<100, "topic", 1>>) : r.is_completed = 1

\* C22: the completion transition that brings a user's number of completed
\* paths to exactly 5 awards milestone_5 if the user does not hold it, and no
\* first_path; the one that brings the number to 6 awards no first_path and
\* no milestone.
C22_MilestoneBoundary ==
    [][\A r \in ReqIds :
          (Answered(r) /\ reqs[r].op = "toggle" /\ reqs[r].isNewCompletion) =>
              LET n == Cardinality(SelectCompleted(paths', 1))
                  held == TypeCount(1, "milestone_5") > 0
                  new == { last'.newAchievements[k] :
                              k \in 1..Len(last'.newAchievements) }
              IN  /\ n = 5 => /\ "first_path" \notin new
                              /\ held <=> "milestone_5" \notin new
                              /\ TypeCount(1, "milestone_5")' = 1
                  /\ n = 6 => new \subseteq {"path_completion"}]_vars

\* a sixth path has been completed, after the fifth brought milestone_5
C22_Witness ==
    /\ Cardinality(SelectCompleted(paths, 1)) = 6
    /\ TypeCount(1, "milestone_5") = 1
    /\ ToggleAnswered
    /\ last.isFullyCompleted

\* request r found the path fully complete and not yet 'completed': the
\* Achievement Evaluator runs, or has run, for it
EvaluatorRuns(r) == reqs[r].op = "toggle" /\ reqs[r].isNewCompletion

\* C23: of two concurrent toggle requests on one path that both find it fully
\* complete, the Achievement Evaluator runs for at most one, and at most one
\* path_completion achievement is inserted for the user and the path.
C23_OneEvaluationWhenConcurrent ==
    /\ Cardinality({r \in ReqIds : EvaluatorRuns(r)}) <= 1
    /\ AchievementCount(1, 1, "path_completion") <= 1

\* C24: completed_at of a path is written by the toggle in which the
\* completion transition happens, and no later toggle changes it while the
\* status stays 'completed'.
C24_CompletedAtKept ==
    [][\A p \in PathIds :
          /\ (paths[p].status # "completed" /\ paths'[p].status = "completed") =>
                \E r \in ReqIds :
                    /\ UpdateStep(r)
                    /\ reqs[r].pid = p
                    /\ paths'[p].completed_at = reqs[r].at
                    /\ paths'[p].completed_at # NullTime
          /\ (paths[p].status = "completed" /\ paths'[p].status = "completed") =>
                paths'[p].completed_at = paths[p].completed_at]_vars

\* C26: completed_topics of a saved path is at most its total_topics, and no
\* progress_percent of the path list exceeds 100.
C26_CompletedWithinTotal ==
    /\ \A p \in PathIds : paths[p].completed_topics <= paths[p].total_topics
    /\ last.op = "list" =>
          \A n \in DOMAIN last.progress_percent : last.progress_percent[n] <= 100

\* C27: a toggle with isCompleted = false, or of an item that is no topic,
\* never sets a path to 'completed' and never awards an achievement.
C27_OnlyTopicCompletionCompletes ==
    [][\A r \in ReqIds :
          (/\ InFlight(r)
           /\ reqs[r].op = "toggle"
           /\ ~reqs[r].isCompleted \/ reqs[r].itemType # "topic") =>
              /\ \A q \in PathIds :
                    paths'[q].status = "completed" => paths[q].status = "completed"
              /\ achievements' = achievements
              /\ Answered(r) => last'.newAchievements = <<>>]_vars

\* the progress record of path p that a request <<stageIndex, itemType,
\* itemIndex>> writes is complete
RecordComplete(p, request) ==
    \E r \in progress :
        /\ r.path_id = p
        /\ <<r.stage_index, r.item_type, r.item_index>> = request
        /\ r.is_completed = 1

C29_ClientCountIsServerCount ==
    (view.pc = "mounted" /\ NoCall) =>
        view.completedTopics = paths[view.pathId].completed_topics

\* C30: of two concurrent save requests of one user for one topic, at most
\* one inserts a path, and the other is answered 409 Conflict.
C30_OneSaveAmongConcurrent ==
    \A r1 \in ReqIds, r2 \in ReqIds :
        (/\ r1 # r2
         /\ reqs[r1].pc = "done" /\ reqs[r2].pc = "done"
         /\ reqs[r1].op = "save" /\ reqs[r2].op = "save"
         /\ reqs[r1].user = reqs[r2].user /\ reqs[r1].topic = reqs[r2].topic
         /\ reqs[r1].code = 201)
            => reqs[r2].code = 409

============================================================================
